---- MODULE Spec2Model ----
(***************************************************************************)
(* Pipeline orchestration of difficultnerd/software-factory-platform:      *)
(* the job state machine driven by user requests (routes/features.ts),     *)
(* the queue consumer and its steps (lib/pipeline.ts, index.ts), the       *)
(* stuck-job sweep (lib/stuck-recovery.ts) and the verdict parser.         *)
(*                                                                         *)
(* One job (one row of table features) is modelled.  Every database        *)
(* statement of the code is one atomic step; a handler that reads the row  *)
(* and writes it in a later statement is two steps, so that other          *)
(* handlers interleave between them as they can in the deployment.  A      *)
(* statement that only other statements of the same handler can tell from  *)
(* its neighbour (a send after a write, the deletion of the artifacts      *)
(* before the write of revise) is part of its neighbour's step.            *)
(***************************************************************************)
EXTENDS Bags, FiniteSets, Integers, Sequences, TLC

(***************************************************************************)
(* Bounds of the model.                                                    *)
(***************************************************************************)
MaxLines == 6       \* longest review text, in lines, given to parseVerdict
MaxConcurrent == 2  \* requests in flight, messages and sweeps at one time
MaxAge == 11        \* minutes since the last row update, saturating
TickMinutes == 10   \* granularity of the clock

(***************************************************************************)
(* Text: a text is the sequence of its lines (text.split('\n')); a line is *)
(* its leading whitespace, its core (no whitespace at either end) and its  *)
(* trailing whitespace.  A line without core keeps its whitespace in lead. *)
(***************************************************************************)
Ln(lead, core, trail) == [lead |-> lead, core |-> core, trail |-> trail]

VerdictPass == Ln("", "VERDICT: PASS", "")
VerdictFail == Ln("", "VERDICT: FAIL", "")
PaddedPass == Ln(" ", "VERDICT: PASS", " ")
LowerPass == Ln("", "VERDICT: pass", "")
DottedPass == Ln("", "VERDICT: PASS.", "")
EmptyLine == Ln("", "", "")
ReportLine == Ln("", "## Findings", "")
RuleLine == Ln("", "---", "")
TruncNoteLine == Ln("", "*Review was truncated due to length limits.*", "")

\* The lines review texts are built from.
Lines == {VerdictPass, VerdictFail, PaddedPass, LowerPass, DottedPass, EmptyLine}

\* String.prototype.trim on one line.
TrimLine(l) == Ln("", l.core, "")

IsBlank(l) == l.core = ""

\* The text with its leading blank lines removed and the leading whitespace
\* of its first line removed (the left half of text.trim()).
RECURSIVE TrimStart(_)
TrimStart(t) ==
  IF t = <<>> THEN <<>>
  ELSE IF IsBlank(Head(t)) THEN TrimStart(Tail(t))
  ELSE <<Ln("", Head(t).core, Head(t).trail)>> \o Tail(t)

\* The right half of text.trim().
RECURSIVE TrimEnd(_)
TrimEnd(t) ==
  IF t = <<>> THEN <<>>
  ELSE IF IsBlank(t[Len(t)]) THEN TrimEnd(SubSeq(t, 1, Len(t) - 1))
  ELSE SubSeq(t, 1, Len(t) - 1) \o <<Ln(t[Len(t)].lead, t[Len(t)].core, "")>>

\* Variant: split without trim.
TrimSplitUntrimmed(t) ==
  IF t = <<>> THEN <<EmptyLine>> ELSE t

\* text.trim().split('\n'): the empty string splits into one empty line.
TrimSplit(t) ==
  LET s == TrimEnd(TrimStart(t))
  IN IF s = <<>> THEN <<EmptyLine>> ELSE s

Max(a, b) == IF a >= b THEN a ELSE b
Min(a, b) == IF a <= b THEN a ELSE b

VerdictWindow == 5

\* The loop of parseVerdict, i counting down from `i' to `lo' (1-based).
RECURSIVE ScanVerdict(_, _, _)
ScanVerdict(lines, i, lo) ==
  IF i < lo THEN "FAIL"
  ELSE IF TrimLine(lines[i]) = VerdictPass THEN "PASS"
  ELSE IF TrimLine(lines[i]) = VerdictFail THEN "FAIL"
  ELSE ScanVerdict(lines, i - 1, lo)

\* Variant: the scan goes back to the first line.
parseVerdictWholeText(text) ==
  LET lines == TrimSplit(text)
  IN ScanVerdict(lines, Len(lines), 1)

parseVerdict(text) ==
  LET lines == TrimSplit(text)
  IN ScanVerdict(lines, Len(lines), Max(1, Len(lines) - VerdictWindow + 1))

\* The suffix the review steps append to a truncated review:
\* '\n\n---\n*Review was truncated due to length limits.*\n\nVERDICT: FAIL'.
\* The first '\n' ends the last line of the review.
TruncatedSuffix == <<EmptyLine, RuleLine, TruncNoteLine, EmptyLine, VerdictFail>>

TruncatedReview(text) == text \o TruncatedSuffix

(***************************************************************************)
(* The job row (table features) and the values of its columns.             *)
(***************************************************************************)
Null == "NULL"      \* SQL NULL in a string column
NullText == <<>>    \* SQL NULL in a review column (a text has >= 1 line)

Gates == {"spec_ready", "plan_ready", "tests_ready"}
Terminal == {"done", "failed"}
STUCK_STATUSES ==
  {"spec_generating", "plan_generating", "tests_generating", "implementing", "review"}
Statuses == {"drafting"} \cup Gates \cup STUCK_STATUSES \cup Terminal

STUCK_THRESHOLD_MINUTES == 10

\* The next status and the message of each gate approval.
ApprovedStatus(gate) ==
  CASE gate = "spec_ready" -> "plan_generating"
    [] gate = "plan_ready" -> "tests_generating"
    [] gate = "tests_ready" -> "implementing"

ApprovedMessage(gate) ==
  CASE gate = "spec_ready" -> "run_plan"
    [] gate = "plan_ready" -> "run_tests"
    [] gate = "tests_ready" -> "run_implement"

MessageTypes ==
  {"run_spec", "run_plan", "run_tests", "run_implement",
   "run_security_review", "run_code_review", "run_verdict"}

(***************************************************************************)
(* The environment of a run: what users submit and what the agents, the    *)
(* vault and the store answer.  A specification fixes it in env:           *)
(*   briefs           the briefs users submit                              *)
(*   recommendations  reviewResult.text of the alignment agent, Null when  *)
(*                    it failed or threw                                    *)
(*   reviews          runAgent's result of the two review agents           *)
(*   truncations      result.wasTruncated of the generating agents         *)
(*   faults           what goes wrong in a step: "credential" (no API      *)
(*                    key), "agent" (the model call fails), "exception"    *)
(*                    (something throws), "store" (an UPDATE fails)        *)
(***************************************************************************)
PassReview == <<ReportLine, VerdictPass>>
FailReview == <<ReportLine, VerdictFail>>
ReviewResult(text, wasTruncated) == [text |-> text, wasTruncated |-> wasTruncated]

Environment(briefs, recommendations, reviews, truncations, faults) ==
  [briefs |-> briefs, recommendations |-> recommendations, reviews |-> reviews,
   truncations |-> truncations, faults |-> faults]

\* Every handler racing every other; a model call may fail and a review may
\* be truncated.
RaceEnv ==
  Environment({"brief A"}, {Null},
              {ReviewResult(PassReview, FALSE), ReviewResult(FailReview, FALSE),
               ReviewResult(PassReview, TRUE)},
              {FALSE}, {"agent"})

\* Users submit different briefs.
BriefsEnv ==
  Environment({"brief A", "brief B"}, {Null},
              {ReviewResult(PassReview, FALSE)},
              {FALSE}, {"agent"})

\* Users revise the brief and retry after failures; alignment reviews return
\* a recommendation.
ReworkEnv ==
  Environment({"brief A", "brief B"}, {"Aligned with the brief."},
              {ReviewResult(PassReview, FALSE)},
              {FALSE}, {"agent"})

\* Every fault of a step occurs: no API key, a failed model call, output
\* that stays invalid, a thrown exception, a failed save.
FaultsEnv ==
  Environment({"brief A"}, {Null},
              {ReviewResult(PassReview, FALSE)},
              {FALSE}, {"credential", "agent", "validation", "exception", "store"})

\* Alignment reviews return a recommendation, fail or throw, and outputs are
\* truncated at the token limit.
AdvisoryEnv ==
  Environment({"brief A"}, {Null, "Aligned with the brief."},
              {ReviewResult(PassReview, FALSE)},
              {FALSE, TRUE}, {"agent"})

\* The briefs of all environments.
Briefs == {"brief A", "brief B"}

\* The paths of the files the code runner returns.
FileSets == {{"src/a.ts"}}

VARIABLES
  env,            \* the environment of the run
  job,            \* the row of table features
  age,            \* minutes since updated_at (set by trigger features_updated_at)
  artifacts,      \* file paths stored for the job (table artifacts and R2)
  queue,          \* bag of message types waiting in PIPELINE_QUEUE
  running,        \* bag of steps delivered to processPipelineStep, not yet returned
  inflight,       \* bag of user requests between two of their statements
  stuckFeatures,  \* the rows the sweep selected and has not yet updated
  approvalsSent,  \* messages sent by approvals since the job last settled
  vText,          \* a review text as the agent returned it
  vStored,        \* the text the review step stores for it
  vResult,        \* the verdict parseVerdict returns for the stored text
  attempt,        \* the loop counter of runCodeAgentWithToolUse
  calls,          \* the calls of callToolCompletion it has made
  messages,       \* the conversation sent with the next call
  toolResult,     \* what its last call of callToolCompletion returned
  returned,       \* the CodeRunnerResult it returned
  agent_runs,     \* the status of the rows the run inserted in agent_runs
  written,        \* the files whose objects the model has streamed in full
  jsonBuffer,     \* the tool input callToolCompletion has accumulated
  salvaged,       \* what salvageToolInput returned for it
  cStatuses,      \* the HTTP statuses fetchWithRetry has received
  cResponse,      \* the response fetchWithRetry returned (its status)
  cText,          \* text of callCompletion
  cStopReason,    \* stopReason of streamChatCompletion
  cEvent,         \* eventType of the last event read; "done" at the stream's end
  cResult,        \* the CompletionResult callCompletion returned
  sseCall,        \* the function that reads the response body ("" before)
  sseWritten,     \* the frames the service has written to the body
  sseOffset,      \* the bytes of the body reader.read() has returned
  sseReader       \* the locals of the function that reads the body

pipelineVars ==
  <<job, age, artifacts, queue, running, inflight, stuckFeatures, approvalsSent>>
verdictVars == <<vText, vStored, vResult>>
runnerVars == <<attempt, calls, messages, toolResult, returned, agent_runs>>
salvageVars == <<written, jsonBuffer, salvaged>>
clientVars == <<cStatuses, cResponse, cText, cStopReason, cEvent, cResult>>
sseVars == <<sseCall, sseWritten, sseOffset, sseReader>>
vars ==
  <<env, pipelineVars, verdictVars, runnerVars, salvageVars, clientVars, sseVars>>

NewJob ==
  [status |-> "drafting",
   brief_markdown |-> Null,
   spec_markdown |-> Null, spec_recommendation |-> Null,
   plan_markdown |-> Null, plan_recommendation |-> Null,
   tests_markdown |-> Null, tests_recommendation |-> Null,
   security_review_markdown |-> NullText,
   code_review_markdown |-> NullText,
   error_message |-> Null]

PipelineInit ==
  /\ job = NewJob
  /\ age = 0
  /\ artifacts = {}
  /\ queue = EmptyBag
  /\ running = EmptyBag
  /\ inflight = EmptyBag
  /\ stuckFeatures = <<>>
  /\ approvalsSent = 0

VerdictIdle ==
  /\ vText = <<EmptyLine>>
  /\ vStored = NullText
  /\ vResult = "none"

\* The code runner before its first call: messages holds the user prompt;
\* toolResult and returned are sequences of at most one result.
RunnerInit ==
  /\ attempt = 0
  /\ calls = 0
  /\ messages = <<[role |-> "user", content |-> "getCodeUserPrompt"]>>
  /\ toolResult = <<>>
  /\ returned = <<>>
  /\ agent_runs = <<>>

\* The tool input when the array of files has been opened: {"files":[
SalvageInit ==
  /\ written = <<>>
  /\ jsonBuffer = <<"{", "\"", "f", "i", "l", "e", "s", "\"", ":", "[">>
  /\ salvaged = <<>>

\* callCompletion before its request; cResponse and cResult are sequences
\* of at most one element.
ClientInit ==
  /\ cStatuses = <<>>
  /\ cResponse = <<>>
  /\ cText = ""
  /\ cStopReason = "unknown"
  /\ cEvent = "none"
  /\ cResult = <<>>

\* The locals of a reader before its first read: pending is what the
\* TextDecoder holds back, text what callCompletion has accumulated from the
\* text events, handled the names of the events handled, yielded the event
\* the reader ended with ("" while it reads).
NewReader ==
  [pending |-> <<>>, buffer |-> <<>>, inputTokens |-> 0, outputTokens |-> 0,
   stopReason |-> "unknown", toolUseId |-> "", jsonBuffer |-> <<>>,
   text |-> <<>>, handled |-> <<>>, yielded |-> "", message |-> ""]

\* No response body is being read.
SseInit ==
  /\ sseCall = ""
  /\ sseWritten = <<>>
  /\ sseOffset = 0
  /\ sseReader = NewReader

Init ==
  env = RaceEnv /\ PipelineInit /\ VerdictIdle /\ RunnerInit /\ SalvageInit
    /\ ClientInit
    /\ SseInit

\* A row update that sets the status column.
SetRow(new) ==
  /\ job' = new
  /\ age' = 0
  /\ approvalsSent' = IF new.status \in Gates \cup Terminal THEN 0 ELSE approvalsSent

\* A row update that leaves the status column alone.
PatchRow(new) ==
  /\ job' = new
  /\ age' = 0
  /\ UNCHANGED approvalsSent

SameRow == UNCHANGED <<job, age, approvalsSent>>

\* Handlers under way: requests in flight, messages queued or delivered,
\* and the sweep between its SELECT and the end of its loop.
Active ==
  BagCardinality(inflight) + BagCardinality(queue) + BagCardinality(running)
    + (IF stuckFeatures = <<>> THEN 0 ELSE 1)

Send(type) == queue' = queue (+) SetToBag({type})

(***************************************************************************)
(* User requests (routes/features.ts).  confirm is one conditional UPDATE, *)
(* followed by a SELECT when it matched no row; the approvals, revise and  *)
(* retry SELECT the row, check its status and UPDATE it by id in a later   *)
(* statement.  A request between two statements is an element of inflight.*)
(***************************************************************************)
Request(op, arg) == [op |-> op, arg |-> arg]

ApproveRoute(gate) ==
  CASE gate = "spec_ready" -> "approve-spec"
    [] gate = "plan_ready" -> "approve-plan"
    [] gate = "tests_ready" -> "approve-tests"

Admit(req) ==
  /\ Active < MaxConcurrent
  /\ inflight' = inflight (+) SetToBag({req})
  /\ UNCHANGED <<env, verdictVars, runnerVars, salvageVars, clientVars, sseVars>>

Leave(req) ==
  /\ BagIn(req, inflight)
  /\ inflight' = inflight (-) SetToBag({req})
  /\ UNCHANGED <<env, verdictVars, runnerVars, salvageVars, clientVars, sseVars>>

\* A request answered 409 after its SELECT: no statement follows.
Reject == UNCHANGED vars

\* Variant: the UPDATE of confirm by id only.
ConfirmById(briefMarkdown) ==
  /\ briefMarkdown \in env.briefs
  /\ Active < MaxConcurrent
  /\ SetRow([job EXCEPT !.brief_markdown = briefMarkdown,
                        !.status = "spec_generating"])
  /\ Send("run_spec")
  /\ UNCHANGED <<artifacts, running, inflight, stuckFeatures>>
  /\ UNCHANGED <<env, verdictVars, runnerVars, salvageVars, clientVars, sseVars>>

\* POST /:id/confirm: UPDATE ... WHERE id AND status = 'drafting', then the
\* send when a row matched.
Confirm(briefMarkdown) ==
  /\ briefMarkdown \in env.briefs
  /\ Active < MaxConcurrent
  /\ IF job.status = "drafting"
     THEN /\ SetRow([job EXCEPT !.brief_markdown = briefMarkdown,
                                !.status = "spec_generating"])
          /\ Send("run_spec")
          /\ UNCHANGED inflight
     ELSE /\ inflight' = inflight (+) SetToBag({Request("confirm", briefMarkdown)})
          /\ UNCHANGED <<job, age, approvalsSent, queue>>
  /\ UNCHANGED <<artifacts, running, stuckFeatures>>
  /\ UNCHANGED <<env, verdictVars, runnerVars, salvageVars, clientVars, sseVars>>

\* ... when no row matched: the SELECT, and 409 'not in drafting status'.
ConfirmRejected(briefMarkdown) ==
  /\ Leave(Request("confirm", briefMarkdown))
  /\ UNCHANGED <<job, age, approvalsSent, artifacts, queue, running, stuckFeatures>>

\* POST /:id/approve-spec, approve-plan, approve-tests: the SELECT and the check.
ApproveCheck(gate) ==
  IF job.status = gate
  THEN /\ Admit(Request(ApproveRoute(gate), gate))
       /\ UNCHANGED <<job, age, approvalsSent, artifacts, queue, running,
                      stuckFeatures>>
  ELSE Reject

\* ... and the UPDATE by id, followed by the send.
ApproveWrite(gate) ==
  /\ Leave(Request(ApproveRoute(gate), gate))
  /\ job' = [job EXCEPT !.status = ApprovedStatus(gate)]
  /\ age' = 0
  /\ approvalsSent' = approvalsSent + 1
  /\ Send(ApprovedMessage(gate))
  /\ UNCHANGED <<artifacts, running, stuckFeatures>>

\* POST /:id/revise: the SELECT and the check.
ReviseCheck(briefMarkdown) ==
  IF job.status \in Gates
  THEN /\ briefMarkdown \in env.briefs
       /\ Admit(Request("revise", briefMarkdown))
       /\ UNCHANGED <<job, age, approvalsSent, artifacts, queue, running,
                      stuckFeatures>>
  ELSE Reject

\* Variant: the row after an UPDATE that leaves the recommendations.
RevisedWithRecommendations(briefMarkdown) ==
  [job EXCEPT !.brief_markdown = briefMarkdown,
              !.status = "spec_generating",
              !.spec_markdown = Null,
              !.plan_markdown = Null,
              !.tests_markdown = Null,
              !.security_review_markdown = NullText,
              !.code_review_markdown = NullText,
              !.error_message = Null]

\* The row after the UPDATE of revise.
Revised(briefMarkdown) ==
  [job EXCEPT !.brief_markdown = briefMarkdown,
              !.status = "spec_generating",
              !.spec_markdown = Null, !.spec_recommendation = Null,
              !.plan_markdown = Null, !.plan_recommendation = Null,
              !.tests_markdown = Null, !.tests_recommendation = Null,
              !.security_review_markdown = NullText,
              !.code_review_markdown = NullText,
              !.error_message = Null]

\* ... the deletion of the artifacts, the UPDATE by id and the send.
ReviseWrite(briefMarkdown) ==
  /\ Leave(Request("revise", briefMarkdown))
  /\ artifacts' = {}
  /\ SetRow(Revised(briefMarkdown))
  /\ Send("run_spec")
  /\ UNCHANGED <<running, stuckFeatures>>

\* The checkpoint retry rolls back to, from the deliverables it read.
RetryTarget(f) ==
  IF f.tests_markdown # Null THEN "tests_ready"
  ELSE IF f.plan_markdown # Null THEN "plan_ready"
  ELSE IF f.spec_markdown # Null THEN "spec_ready"
  ELSE "drafting"

RetryTargets == Gates \cup {"drafting"}

\* POST /:id/retry: the SELECT and the check.
RetryCheck ==
  IF job.status = "failed"
  THEN /\ Admit(Request("retry", RetryTarget(job)))
       /\ UNCHANGED <<job, age, approvalsSent, artifacts, queue, running,
                      stuckFeatures>>
  ELSE Reject

\* The row after the UPDATE of each branch of retry.
Retried(targetStatus) ==
  LET reviewsCleared ==
        [job EXCEPT !.status = targetStatus,
                    !.security_review_markdown = NullText,
                    !.code_review_markdown = NullText,
                    !.error_message = Null]
      testsCleared ==
        [reviewsCleared EXCEPT !.tests_markdown = Null,
                               !.tests_recommendation = Null]
      planCleared ==
        [testsCleared EXCEPT !.plan_markdown = Null,
                             !.plan_recommendation = Null]
      specCleared ==
        [planCleared EXCEPT !.spec_markdown = Null,
                            !.spec_recommendation = Null]
  IN CASE targetStatus = "tests_ready" -> reviewsCleared
       [] targetStatus = "plan_ready" -> testsCleared
       [] targetStatus = "spec_ready" -> planCleared
       [] targetStatus = "drafting" -> specCleared

\* ... and the UPDATE by id (after the deletion of the artifacts when the
\* tests existed).
RetryWrite(targetStatus) ==
  /\ Leave(Request("retry", targetStatus))
  /\ artifacts' = IF targetStatus = "tests_ready" THEN {} ELSE artifacts
  /\ SetRow(Retried(targetStatus))
  /\ UNCHANGED <<queue, running, stuckFeatures>>

(***************************************************************************)
(* The validated code runner (runCodeAgentWithToolUse) and its schemas.    *)
(* A path is the sequence of its characters.                                *)
(***************************************************************************)
MaxFiles == 2       \* longest files array a model call returns

MAX_RETRIES == 2
MaxPathLength == 500

Alphanumeric == {"a", "b"}

CodeFile(path, content) == [path |-> path, content |-> content]

\* The files the model writes: two with the same path, paths with "..",
\* with a first character that is not alphanumeric, an empty path and an
\* empty content.
SampleFiles ==
  {CodeFile(<<"a">>, "x"), CodeFile(<<"a">>, "y"),
   CodeFile(<<"b", "/", "a">>, "x"),
   CodeFile(<<"a", ".", ".", "b">>, "x"),
   CodeFile(<<"a", "/", ".", ".", "/", "b">>, "x"),
   CodeFile(<<"/", "a">>, "x"),
   CodeFile(<<>>, "x"),
   CodeFile(<<"b">>, "")}

RECURSIVE ArraysOf(_, _)
ArraysOf(S, n) ==
  IF n = 0 THEN {<<>>}
  ELSE LET shorter == ArraysOf(S, n - 1)
       IN shorter \cup {Append(a, x) : <<a, x>> \in {b \in shorter : Len(b) = n - 1} \X S}

FileArrays == ArraysOf(SampleFiles, MaxFiles)

\* String.prototype.includes
Includes(p, q) ==
  \E i \in 1..(Len(p) - Len(q) + 1) : SubSeq(p, i, i + Len(q) - 1) = q

\* The issues of CodeFileSchema for the file at index i (0-based), in the
\* order of its checks.
FileIssues(i, file) ==
  LET at == ToString(i) \o ".path: "
  IN (IF Len(file.path) < 1
      THEN <<at \o "String must contain at least 1 character(s)">> ELSE <<>>)
     \o (IF Len(file.path) > MaxPathLength
         THEN <<at \o "String must contain at most 500 character(s)">> ELSE <<>>)
     \o (IF Len(file.path) = 0 \/ file.path[1] \notin Alphanumeric
         THEN <<at \o "Must start with alphanumeric">> ELSE <<>>)
     \o (IF Includes(file.path, <<".", ".">>)
         THEN <<at \o "Must not contain \"..\"">> ELSE <<>>)
     \o (IF file.content = ""
         THEN <<ToString(i) \o ".content: Must not be empty">> ELSE <<>>)

\* CodeFileSchema.safeParse(raw).success
CodeFileSchema(file) == FileIssues(0, file) = <<>>

RECURSIVE ElementIssues(_, _)
ElementIssues(files, i) ==
  IF i > Len(files) THEN <<>>
  ELSE FileIssues(i - 1, files[i]) \o ElementIssues(files, i + 1)

\* Variant: the schema without its refinement on the paths.
ArrayIssuesUnrefined(files) ==
  ElementIssues(files, 1)
    \o (IF Len(files) < 1 THEN <<": At least one file required">> ELSE <<>>)

\* validation.error.issues of CodeFilesSchema, as `path: message'.
ArrayIssues(files) ==
  ElementIssues(files, 1)
    \o (IF Len(files) < 1 THEN <<": At least one file required">> ELSE <<>>)
    \o (IF Cardinality({files[i].path : i \in 1..Len(files)}) # Len(files)
        THEN <<": No duplicate paths">> ELSE <<>>)

\* CodeFilesSchema.safeParse(rawFiles).success
CodeFilesSchema(files) == ArrayIssues(files) = <<>>

\* issues.join('; ')
RECURSIVE JoinIssues(_)
JoinIssues(issues) ==
  IF Len(issues) = 0 THEN ""
  ELSE IF Len(issues) = 1 THEN issues[1]
  ELSE issues[1] \o "; " \o JoinIssues(Tail(issues))

\* What callToolCompletion returns.
Unrecovered == "Code generation output was truncated and could not be recovered"
NoToolUse == "Model did not use the requested tool"
NoFilesRecovered ==
  "Code generation output was truncated and no complete files could be recovered. Please try again with a simpler feature."

ParseFailure == "Failed to parse tool input from AI response"
HttpError == "AI service error (HTTP 500)"
ProviderError == "Overloaded"

\* Variant: every failure of the call counts as a truncation.
MentionsAnything(error) == TRUE

\* result.error.includes('truncated')
MentionsTruncated(error) == error \in {Unrecovered, NoFilesRecovered}

ToolErrors == {Unrecovered, NoToolUse, ParseFailure, HttpError, ProviderError}

ToolResults ==
  {[ok |-> FALSE, error |-> e] : e \in ToolErrors}
    \cup {[ok |-> TRUE, files |-> files, stopReason |-> stopReason] :
            <<files, stopReason>> \in FileArrays \X {"tool_use", "max_tokens"}}

RunnerFailure(error) == [ok |-> FALSE, error |-> error]
RunnerSuccess(files, wasTruncated, attempts) ==
  [ok |-> TRUE, files |-> files, wasTruncated |-> wasTruncated,
   attempts |-> attempts]

InvalidOutput(files) ==
  "Code generation produced invalid output after " \o ToString(MAX_RETRIES + 1)
    \o " attempts: " \o JoinIssues(ArrayIssues(files))

\* Variant: a truncated output is returned with all the files recovered.
TruncatedUnfiltered(files, attempts) ==
  IF Len(files) = 0 \/ Len(SelectSeq(files, CodeFileSchema)) = 0
  THEN RunnerFailure(NoFilesRecovered)
  ELSE RunnerSuccess(files, TRUE, attempts)

\* What the runner returns for an output that stopped at the token limit:
\* the recovered files that pass CodeFileSchema one by one.
Truncated(files, attempts) ==
  LET validFiles == SelectSeq(files, CodeFileSchema)
  IN IF Len(files) = 0 \/ Len(validFiles) = 0
     THEN RunnerFailure(NoFilesRecovered)
     ELSE RunnerSuccess(validFiles, TRUE, attempts)

\* The first message of the conversation: the user prompt.
UserPrompt == [role |-> "user", content |-> "getCodeUserPrompt"]

\* Variant: only the tool error is appended after a validation failure.
ToolErrorOnly(r) ==
  <<[role |-> "user",
     content |-> "tool_result: Validation failed: " \o JoinIssues(ArrayIssues(r.files))
                   \o ". Please fix these issues and call write_files again with corrected files."]>>

\* The two messages the runner appends after output that fails the
\* validation: the tool call of the assistant and a tool_result error.
ToolErrorTurn(r) ==
  <<[role |-> "assistant", content |-> "tool_use"],
    [role |-> "user",
     content |-> "tool_result: Validation failed: " \o JoinIssues(ArrayIssues(r.files))
                   \o ". Please fix these issues and call write_files again with corrected files."]>>

\* logAgentRun, which the runner calls before each of its returns.
LogAgentRun ==
  agent_runs' = IF returned' = <<>> THEN agent_runs
                ELSE Append(agent_runs,
                            IF returned'[1].ok THEN "success" ELSE "failed")

\* Variant: a retry after a truncation does not count as an attempt.
AttemptUncounted(r) ==
  /\ returned = <<>>
  /\ attempt <= MAX_RETRIES
  /\ calls' = calls + 1
  /\ toolResult' = <<r>>
  /\ IF ~r.ok
     THEN IF MentionsTruncated(r.error) /\ attempt < MAX_RETRIES
          THEN /\ messages' = <<messages[1]>>
               /\ UNCHANGED <<attempt, returned>>
          ELSE /\ returned' = <<RunnerFailure(r.error)>>
               /\ UNCHANGED <<attempt, messages>>
     ELSE IF r.stopReason = "max_tokens"
     THEN /\ returned' = <<Truncated(r.files, attempt + 1)>>
          /\ UNCHANGED <<attempt, messages>>
     ELSE IF CodeFilesSchema(r.files)
     THEN /\ returned' = <<RunnerSuccess(r.files, FALSE, attempt + 1)>>
          /\ UNCHANGED <<attempt, messages>>
     ELSE IF attempt < MAX_RETRIES
     THEN /\ messages' = messages \o ToolErrorTurn(r)
          /\ attempt' = attempt + 1
          /\ UNCHANGED returned
     ELSE /\ returned' = <<RunnerFailure(InvalidOutput(r.files))>>
          /\ UNCHANGED <<attempt, messages>>
  /\ LogAgentRun
  /\ UNCHANGED <<env, pipelineVars, verdictVars, salvageVars, clientVars, sseVars>>

\* One iteration of the loop of runCodeAgentWithToolUse: the call of
\* callToolCompletion and what the runner does with its result r.
Attempt(r) ==
  /\ returned = <<>>
  /\ attempt <= MAX_RETRIES
  /\ calls' = calls + 1
  /\ toolResult' = <<r>>
  /\ IF ~r.ok
     THEN IF MentionsTruncated(r.error) /\ attempt < MAX_RETRIES
          THEN /\ messages' = <<messages[1]>>
               /\ attempt' = attempt + 1
               /\ UNCHANGED returned
          ELSE /\ returned' = <<RunnerFailure(r.error)>>
               /\ UNCHANGED <<attempt, messages>>
     ELSE IF r.stopReason = "max_tokens"
     THEN /\ returned' = <<Truncated(r.files, attempt + 1)>>
          /\ UNCHANGED <<attempt, messages>>
     ELSE IF CodeFilesSchema(r.files)
     THEN /\ returned' = <<RunnerSuccess(r.files, FALSE, attempt + 1)>>
          /\ UNCHANGED <<attempt, messages>>
     ELSE IF attempt < MAX_RETRIES
     THEN /\ messages' = messages \o ToolErrorTurn(r)
          /\ attempt' = attempt + 1
          /\ UNCHANGED returned
     ELSE /\ returned' = <<RunnerFailure(InvalidOutput(r.files))>>
          /\ UNCHANGED <<attempt, messages>>
  /\ LogAgentRun
  /\ UNCHANGED <<env, pipelineVars, verdictVars, salvageVars, clientVars, sseVars>>

RunnerNext == \E r \in ToolResults : Attempt(r)

RunnerSpec == Init /\ [][RunnerNext]_vars

(***************************************************************************)
(* The queue consumer (index.ts) and the steps (lib/pipeline.ts).  A       *)
(* delivered message is an element of running until its step returns and   *)
(* the consumer acknowledges it.  Every step writes the row by id only.    *)
(***************************************************************************)
Step(type, securityVerdict, codeReviewVerdict) ==
  [type |-> type, securityVerdict |-> securityVerdict,
   codeReviewVerdict |-> codeReviewVerdict]

\* The two verdicts stepRunVerdict computes from the row it selected.
securityVerdictOf(f) ==
  IF f.security_review_markdown # NullText
  THEN parseVerdict(f.security_review_markdown) ELSE "FAIL"

codeReviewVerdictOf(f) ==
  IF f.code_review_markdown # NullText
  THEN parseVerdict(f.code_review_markdown) ELSE "FAIL"

\* queue(batch) hands one message to processPipelineStep; stepRunVerdict
\* begins with its SELECT of the two review columns.
processPipelineStep(type) ==
  /\ BagIn(type, queue)
  /\ queue' = queue (-) SetToBag({type})
  /\ running' = running (+) SetToBag({
        IF type = "run_verdict"
        THEN Step(type, securityVerdictOf(job), codeReviewVerdictOf(job))
        ELSE Step(type, "-", "-")})
  /\ UNCHANGED <<job, age, approvalsSent, artifacts, inflight, stuckFeatures>>
  /\ UNCHANGED <<env, verdictVars, runnerVars, salvageVars, clientVars, sseVars>>

\* What a delivered step does to the store and the queue before it returns:
\* the row it writes (write says whether the UPDATE sets the status column,
\* another column, or does not happen), the files it stores, and the message
\* it sends ("none" when it sends none).
Outcome(write, row, files, next) ==
  [write |-> write, row |-> row, files |-> files, next |-> next]

\* The step returns with outcome o, and message.ack() is called; when an
\* exception leaves processPipelineStep (write is "thrown") the consumer
\* calls message.retry() and the queue delivers the message again.
Return(step, o) ==
  /\ BagIn(step, running)
  /\ running' = running (-) SetToBag({step})
  /\ queue' = IF o.write = "thrown" THEN queue (+) SetToBag({step.type})
            ELSE IF o.next = "none" THEN queue
            ELSE queue (+) SetToBag({o.next})
  /\ artifacts' = artifacts \cup o.files
  /\ CASE o.write = "status" -> SetRow(o.row)
       [] o.write = "column" -> PatchRow(o.row)
       [] o.write \in {"none", "thrown"} -> SameRow
  /\ UNCHANGED <<inflight, stuckFeatures>>
  /\ UNCHANGED <<env, verdictVars, runnerVars, salvageVars, clientVars, sseVars>>

\* Variant: the status failed is written without a message.
FailedSilently(errorMessage) == [job EXCEPT !.status = "failed"]

\* The row after UPDATE features SET status = 'failed', error_message = ...
Failed(errorMessage) ==
  [job EXCEPT !.status = "failed", !.error_message = errorMessage]

Fails(errorMessage) == Outcome("status", Failed(errorMessage), {}, "none")

KeyError == "Failed to read API key. Please check your key in Settings."
AgentError == "AI service returned empty response"
StoreError == "connection reset"
Thrown == "fetch failed"

When(fault, outcomes) == IF fault \in env.faults THEN outcomes ELSE {}

\* Variant: steps without a catch block.
StepFailuresUncaught(crashPrefix) ==
  When("credential", {Fails(KeyError)})
    \cup When("exception", {Outcome("thrown", job, {}, "none")})

\* Every step: readApiKey finds no key, or something throws before the step
\* has written and the catch block writes `failed'.
StepFailures(crashPrefix) ==
  When("credential", {Fails(KeyError)})
    \cup When("exception", {Fails(crashPrefix \o Thrown)})

\* What runAgent returns for the alignment review of a generation step, or
\* that it threw: a text for every recommendation of the environment; a
\* failure and an exception when the environment has reviews that fail.
AlignmentReviews ==
  {[ok |-> TRUE, thrown |-> FALSE, text |-> rec] :
     rec \in env.recommendations \ {Null}}
    \cup (IF Null \in env.recommendations
          THEN {[ok |-> FALSE, thrown |-> thrown, text |-> AgentError] :
                  thrown \in BOOLEAN}
          ELSE {})

\* Variant: the step keeps the deliverable only when the alignment review
\* returned a recommendation.
GeneratedIfAligned(column, recColumn, ready, text, truncatedMessage, wasTruncated, review) ==
  IF review.ok
  THEN Outcome("status",
               [job EXCEPT ![column] = text, ![recColumn] = review.text,
                           !.status = ready,
                           !.error_message =
                              IF wasTruncated THEN truncatedMessage ELSE @],
               {}, "none")
  ELSE Fails("Alignment review failed")

\* A generation step whose agent returned a text: the alignment review is
\* `non-critical', its text or NULL is saved with the deliverable and the
\* gate status (and with a warning when the deliverable was truncated).
Generated(column, recColumn, ready, text, truncatedMessage, wasTruncated, review) ==
  Outcome("status",
          [job EXCEPT ![column] = text,
                      ![recColumn] = IF review.ok THEN review.text ELSE Null,
                      !.status = ready,
                      !.error_message =
                         IF wasTruncated THEN truncatedMessage ELSE @],
          {}, "none")

\* Variant: a failed agent call leaves the row as it is.
GenerationUnfailed(column, recColumn, ready, text, truncatedMessage, saveFailure) ==
  When("agent", {Outcome("none", job, {}, "none")})
    \cup When("store", {Fails(saveFailure \o StoreError)})
    \cup {Generated(column, recColumn, ready, text, truncatedMessage,
                     wasTruncated, review) :
            <<wasTruncated, review>> \in env.truncations \X AlignmentReviews}

\* stepRunSpec, stepRunPlan, stepRunTests: the agent failed; or the text is
\* saved with the recommendation (and a warning when it was truncated); or
\* the save failed.  The text stands for result.text with the truncation
\* note when one was appended.
Generation(column, recColumn, ready, text, truncatedMessage, saveFailure) ==
  When("agent", {Fails(AgentError)})
    \cup When("store", {Fails(saveFailure \o StoreError)})
    \cup {Generated(column, recColumn, ready, text, truncatedMessage,
                     wasTruncated, review) :
            <<wasTruncated, review>> \in env.truncations \X AlignmentReviews}

stepRunSpec ==
  \E o \in StepFailures("Spec agent error: ")
           \cup Generation("spec_markdown", "spec_recommendation", "spec_ready",
                  "# Specification",
                  "Specification output was truncated due to length limits. Some sections may be incomplete.",
                  "Failed to save specification: ") :
    Return(Step("run_spec", "-", "-"), o)

stepRunPlan ==
  \E o \in StepFailures("Plan agent error: ")
           \cup Generation("plan_markdown", "plan_recommendation", "plan_ready",
                  "# Plan",
                  "Plan output was truncated due to length limits. Some sections may be incomplete.",
                  "Failed to save plan: ") :
    Return(Step("run_plan", "-", "-"), o)

stepRunTests ==
  \E o \in StepFailures("Test agent error: ")
           \cup Generation("tests_markdown", "tests_recommendation", "tests_ready",
                  "# Tests",
                  "Tests output was truncated due to length limits. Some test cases may be incomplete.",
                  "Failed to save tests: ") :
    Return(Step("run_tests", "-", "-"), o)

\* codeResult.error of a run whose model call failed.
CodeError == NoToolUse
TruncatedFiles(files) ==
  "Output was truncated: " \o ToString(Cardinality(files))
    \o " complete file(s) were recovered, but some files may be missing."

\* What runCodeAgentWithToolUse returns to stepRunImplement: a failure of its
\* model call or of the validation of its last attempt, or files, from a
\* complete or a truncated output.
CodeResults ==
  When("agent", {[ok |-> FALSE, error |-> CodeError]})
    \cup When("validation", {[ok |-> FALSE, error |-> InvalidOutput(<<>>)]})
    \cup {[ok |-> TRUE, files |-> files, wasTruncated |-> wasTruncated] :
            <<files, wasTruncated>> \in FileSets \X env.truncations}

\* Variant: the transition to review never carries a warning.
ImplementedUnwarned(codeResult) ==
  IF ~codeResult.ok
  THEN Fails(codeResult.error)
  ELSE Outcome("status", [job EXCEPT !.status = "review"],
               codeResult.files, "run_security_review")

\* stepRunImplement with the result of the runner: a failure is written with
\* the status failed; the files of a success are stored, the row goes to
\* review, with a warning when the output was truncated, and the security
\* review is enqueued.
Implemented(codeResult) ==
  IF ~codeResult.ok
  THEN Fails(codeResult.error)
  ELSE Outcome("status",
               [job EXCEPT !.status = "review",
                           !.error_message =
                              IF codeResult.wasTruncated
                              THEN TruncatedFiles(codeResult.files) ELSE @],
               codeResult.files, "run_security_review")

\* stepRunImplement: what it does with the result of the runner; or
\* something throws once files are stored (ARTIFACTS.put,
\* PIPELINE_QUEUE.send) and the catch block writes `failed'; or the UPDATE
\* to review failed.
Implementation ==
  {Implemented(codeResult) : codeResult \in CodeResults}
    \cup When("exception",
           {Outcome("status", Failed("Pipeline error: " \o Thrown), files, "none") :
              files \in FileSets})
    \cup When("store",
           {Outcome("status",
                    Failed("Failed to transition to review: " \o StoreError),
                    files, "none") : files \in FileSets})

stepRunImplement ==
  \E o \in StepFailures("Pipeline error: ") \cup Implementation :
    Return(Step("run_implement", "-", "-"), o)

\* The text a review step stores for the agent's result.
ReviewText(result) ==
  IF result.wasTruncated THEN TruncatedReview(result.text) ELSE result.text

\* A review step stores nothing and enqueues the next step.
Unreviewed(next) == Outcome("none", job, {}, next)

\* Variant: every review step sends the verdict step.
ReviewThenVerdict(column, next) ==
  IF artifacts = {}
  THEN {Unreviewed("run_verdict")}
  ELSE When("agent", {Unreviewed("run_verdict")})
         \cup When("store", {Unreviewed("run_verdict")})
         \cup {Outcome("column", [job EXCEPT ![column] = ReviewText(result)],
                       {}, "run_verdict") : result \in env.reviews}

\* stepRunSecurityReview and stepRunCodeReview: without code files, or when
\* the agent fails or the save fails, nothing is stored; the next step is
\* enqueued in every case.
Review(column, next) ==
  IF artifacts = {}
  THEN {Unreviewed(next)}
  ELSE When("agent", {Unreviewed(next)})
         \cup When("store", {Unreviewed(next)})
         \cup {Outcome("column", [job EXCEPT ![column] = ReviewText(result)],
                       {}, next) : result \in env.reviews}

\* PIPELINE_QUEUE.send throws after the review is saved, and the catch block
\* writes `failed'.
ReviewUnsent(column, crashPrefix) ==
  IF artifacts = {} THEN {}
  ELSE When("exception",
         {Outcome("status",
                  [Failed(crashPrefix \o Thrown) EXCEPT ![column] = ReviewText(result)],
                  {}, "none") : result \in env.reviews})

stepRunSecurityReview ==
  \E o \in StepFailures("Security review error: ")
           \cup ReviewUnsent("security_review_markdown", "Security review error: ")
           \cup Review("security_review_markdown", "run_code_review") :
    Return(Step("run_security_review", "-", "-"), o)

stepRunCodeReview ==
  \E o \in StepFailures("Code review error: ")
           \cup ReviewUnsent("code_review_markdown", "Code review error: ")
           \cup Review("code_review_markdown", "run_verdict") :
    Return(Step("run_code_review", "-", "-"), o)

\* failures.join(' and ')
RECURSIVE JoinAnd(_)
JoinAnd(failures) ==
  IF Len(failures) = 0 THEN ""
  ELSE IF Len(failures) = 1 THEN failures[1]
  ELSE failures[1] \o " and " \o JoinAnd(Tail(failures))

ReviewFailed(securityVerdict, codeReviewVerdict) ==
  LET failures ==
        (IF securityVerdict # "PASS" THEN <<"security review">> ELSE <<>>)
        \o (IF codeReviewVerdict # "PASS" THEN <<"code review">> ELSE <<>>)
  IN "Review failed: " \o JoinAnd(failures)
       \o " did not pass. See review reports for details."

\* Variant: one passing review is enough.
ResolvedByEither(securityVerdict, codeReviewVerdict) ==
  IF securityVerdict = "PASS" \/ codeReviewVerdict = "PASS"
  THEN [job EXCEPT !.status = "done"]
  ELSE Failed(ReviewFailed(securityVerdict, codeReviewVerdict))

\* The row stepRunVerdict writes for the two verdicts it computed.
Resolved(securityVerdict, codeReviewVerdict) ==
  IF securityVerdict = "PASS" /\ codeReviewVerdict = "PASS"
  THEN [job EXCEPT !.status = "done"]
  ELSE Failed(ReviewFailed(securityVerdict, codeReviewVerdict))

\* stepRunVerdict after its SELECT: the UPDATE to done or to failed, which
\* the store may refuse (doneError and failError are only logged).
stepRunVerdict ==
  \E step \in BagToSet(running) :
    /\ step.type = "run_verdict"
    /\ \E o \in {Outcome("status",
                         Resolved(step.securityVerdict, step.codeReviewVerdict),
                         {}, "none")}
                  \cup When("store", {Outcome("none", job, {}, "none")})
                  \cup When("exception", {Fails("Verdict error: " \o Thrown)}) :
         Return(step, o)

(***************************************************************************)
(* The stuck-job sweep (lib/stuck-recovery.ts) and the clock.              *)
(***************************************************************************)
TimedOut(status) ==
  "Pipeline timed out after 10 minutes in \"" \o status
    \o "\" status. Use \"Retry from last checkpoint\" to try again."

\* Variant: the SELECT without the filter on the status.
SweepSelectAnyStatus ==
  /\ stuckFeatures = <<>>
  /\ Active < MaxConcurrent
  /\ age > STUCK_THRESHOLD_MINUTES
  /\ stuckFeatures' = <<job.status>>
  /\ UNCHANGED <<job, age, approvalsSent, artifacts, queue, running, inflight>>
  /\ UNCHANGED <<env, verdictVars, runnerVars, salvageVars, clientVars, sseVars>>

\* The SELECT of recoverStuckFeatures.
SweepSelect ==
  /\ stuckFeatures = <<>>
  /\ Active < MaxConcurrent
  /\ job.status \in STUCK_STATUSES
  /\ age > STUCK_THRESHOLD_MINUTES
  /\ stuckFeatures' = <<job.status>>
  /\ UNCHANGED <<job, age, approvalsSent, artifacts, queue, running, inflight>>
  /\ UNCHANGED <<env, verdictVars, runnerVars, salvageVars, clientVars, sseVars>>

\* Whether the UPDATE of the sweep returns an error: the store fails, or it
\* answers without an error, also when no row matched the two filters.
UpdateErrors == IF "store" \in env.faults THEN BOOLEAN ELSE {FALSE}

\* What the sweep logs after its UPDATE.
RecoveryEvent(updateError) ==
  IF updateError THEN "recovery.update_stuck" ELSE "recovery.recovered"

\* Variant: the UPDATE of the loop by id only.
SweepUpdateById(updateError) ==
  /\ stuckFeatures # <<>>
  /\ stuckFeatures' = Tail(stuckFeatures)
  /\ updateError \in UpdateErrors
  /\ IF updateError
     THEN SameRow
     ELSE SetRow(Failed(TimedOut(Head(stuckFeatures))))
  /\ UNCHANGED <<artifacts, queue, running, inflight>>
  /\ UNCHANGED <<env, verdictVars, runnerVars, salvageVars, clientVars, sseVars>>

\* One iteration of its loop: the UPDATE guarded by the status it read, which
\* returns updateError; the sweep then logs RecoveryEvent(updateError).
SweepUpdate(updateError) ==
  /\ stuckFeatures # <<>>
  /\ stuckFeatures' = Tail(stuckFeatures)
  /\ updateError \in UpdateErrors
  /\ IF ~updateError /\ job.status = Head(stuckFeatures)
     THEN SetRow(Failed(TimedOut(Head(stuckFeatures))))
     ELSE SameRow
  /\ UNCHANGED <<artifacts, queue, running, inflight>>
  /\ UNCHANGED <<env, verdictVars, runnerVars, salvageVars, clientVars, sseVars>>

Tick ==
  /\ age < MaxAge
  /\ age' = Min(age + TickMinutes, MaxAge)
  /\ UNCHANGED <<job, approvalsSent, artifacts, queue, running, inflight,
                 stuckFeatures>>
  /\ UNCHANGED <<env, verdictVars, runnerVars, salvageVars, clientVars, sseVars>>

Next ==
  \/ \E b \in Briefs : Confirm(b)
  \/ \E b \in Briefs : ConfirmRejected(b)
  \/ \E g \in Gates : ApproveCheck(g)
  \/ \E g \in Gates : ApproveWrite(g)
  \/ \E b \in Briefs : ReviseCheck(b)
  \/ \E b \in Briefs : ReviseWrite(b)
  \/ RetryCheck
  \/ \E t \in RetryTargets : RetryWrite(t)
  \/ \E type \in MessageTypes : processPipelineStep(type)
  \/ stepRunSpec
  \/ stepRunPlan
  \/ stepRunTests
  \/ stepRunImplement
  \/ stepRunSecurityReview
  \/ stepRunCodeReview
  \/ stepRunVerdict
  \/ SweepSelect
  \/ \E updateError \in BOOLEAN : SweepUpdate(updateError)
  \/ Tick

\* Every handler racing every other.
Spec == Init /\ [][Next]_vars

\* The same handlers, with users who submit different briefs.
BriefsInit ==
  env = BriefsEnv /\ PipelineInit /\ VerdictIdle /\ RunnerInit /\ SalvageInit
    /\ ClientInit
    /\ SseInit
BriefsSpec == BriefsInit /\ [][Next]_vars

ReworkInit ==
  env = ReworkEnv /\ PipelineInit /\ VerdictIdle /\ RunnerInit /\ SalvageInit
    /\ ClientInit
    /\ SseInit

ReworkSpec == ReworkInit /\ [][Next]_vars

FaultsInit ==
  env = FaultsEnv /\ PipelineInit /\ VerdictIdle /\ RunnerInit /\ SalvageInit
    /\ ClientInit
    /\ SseInit

FaultsSpec == FaultsInit /\ [][Next]_vars

AdvisoryInit ==
  env = AdvisoryEnv /\ PipelineInit /\ VerdictIdle /\ RunnerInit /\ SalvageInit
    /\ ClientInit
    /\ SseInit

AdvisorySpec == AdvisoryInit /\ [][Next]_vars

(***************************************************************************)
(* The review steps and the verdict parser on every review text of up to   *)
(* MaxLines lines: the agent's text grows line by line, the review step    *)
(* stores it (with the suffix when it was truncated) and stepRunVerdict    *)
(* parses what was stored.                                                 *)
(***************************************************************************)
AppendLine(line) ==
  /\ vStored = NullText
  /\ Len(vText) < MaxLines
  /\ vText' = Append(vText, line)
  /\ UNCHANGED <<vStored, vResult>>
  /\ UNCHANGED <<env, pipelineVars, runnerVars, salvageVars, clientVars, sseVars>>

StoreAndParse(wasTruncated) ==
  /\ vStored = NullText
  /\ vStored' = ReviewText(ReviewResult(vText, wasTruncated))
  /\ vResult' = parseVerdict(vStored')
  /\ UNCHANGED vText
  /\ UNCHANGED <<env, pipelineVars, runnerVars, salvageVars, clientVars, sseVars>>

VerdictInit ==
  /\ env = RaceEnv
  /\ PipelineInit
  /\ vText \in {<<line>> : line \in Lines}
  /\ vStored = NullText
  /\ vResult = "none"
  /\ RunnerInit
  /\ SalvageInit
  /\ ClientInit
  /\ SseInit

VerdictNext ==
  \/ \E line \in Lines : AppendLine(line)
  \/ \E wasTruncated \in BOOLEAN : StoreAndParse(wasTruncated)

VerdictSpec == VerdictInit /\ [][VerdictNext]_vars

TypeOK ==
  /\ job.status \in Statuses
  /\ age \in 0..MaxAge
  /\ Active <= MaxConcurrent

(***************************************************************************)
(* The salvage parser of the transport client (salvageToolInput).  A text  *)
(* is the sequence of its characters.                                       *)
(***************************************************************************)
MaxSalvaged == 2    \* most complete file objects before the truncation

Quote == "\""
Backslash == "\\"

\* The files the model streams: contents with braces, quotes, a backslash,
\* a line feed, and the text of a whole file object.
StreamedFiles ==
  {CodeFile(<<"a">>, <<"x">>),
   CodeFile(<<"b">>, <<"{", "}">>),
   CodeFile(<<"a">>, <<"}", Quote, ",", "{">>),
   CodeFile(<<"b">>, <<Backslash, Quote>>),
   CodeFile(<<"a">>, <<"x", "\n", Backslash>>),
   CodeFile(<<"b">>, <<"{", Quote, "p", "a", "t", "h", Quote, ":", Quote, "c", Quote, "}">>)}

\* JSON string escapes of one character, as the model writes them.
EscapeChar(c) ==
  IF c = Quote THEN <<Backslash, Quote>>
  ELSE IF c = Backslash THEN <<Backslash, Backslash>>
  ELSE IF c = "\n" THEN <<Backslash, "n">>
  ELSE <<c>>

RECURSIVE EscapeText(_)
EscapeText(s) ==
  IF s = <<>> THEN <<>> ELSE EscapeChar(Head(s)) \o EscapeText(Tail(s))

JsonString(s) == <<Quote>> \o EscapeText(s) \o <<Quote>>

\* The object the model writes for a file: {"path":"...","content":"..."}
FileObject(file) ==
  <<"{">> \o JsonString(<<"p", "a", "t", "h">>) \o <<":">> \o JsonString(file.path)
    \o <<",">> \o JsonString(<<"c", "o", "n", "t", "e", "n", "t">>) \o <<":">>
    \o JsonString(file.content) \o <<"}">>

\* String.prototype.indexOf(q, from), 1-based; 0 when q does not occur.
IndexOf(s, q, from) ==
  LET hits == {i \in from..(Len(s) - Len(q) + 1) : SubSeq(s, i, i + Len(q) - 1) = q}
  IN IF hits = {} THEN 0 ELSE CHOOSE i \in hits : \A j \in hits : i <= j

\* JSON.parse of a string literal whose opening quote is before position i.
RECURSIVE ReadString(_, _, _)
ReadString(text, i, acc) ==
  IF i > Len(text) THEN [ok |-> FALSE, value |-> <<>>, next |-> 0]
  ELSE IF text[i] = Quote THEN [ok |-> TRUE, value |-> acc, next |-> i + 1]
  ELSE IF text[i] = Backslash
  THEN IF i + 1 > Len(text) \/ text[i + 1] \notin {Quote, Backslash, "n"}
       THEN [ok |-> FALSE, value |-> <<>>, next |-> 0]
       ELSE ReadString(text, i + 2,
                       Append(acc, IF text[i + 1] = "n" THEN "\n" ELSE text[i + 1]))
  ELSE ReadString(text, i + 1, Append(acc, text[i]))

\* JSON.parse of the members of an object of strings from position i on;
\* members holds <<key, value>> for the members read so far.
RECURSIVE ReadMembers(_, _, _)
ReadMembers(text, i, members) ==
  IF i > Len(text) \/ text[i] # Quote THEN [ok |-> FALSE, members |-> <<>>]
  ELSE LET key == ReadString(text, i + 1, <<>>)
       IN IF ~key.ok \/ key.next + 1 > Len(text)
             \/ text[key.next] # ":" \/ text[key.next + 1] # Quote
          THEN [ok |-> FALSE, members |-> <<>>]
          ELSE LET val == ReadString(text, key.next + 2, <<>>)
                   read == Append(members, <<key.value, val.value>>)
               IN IF ~val.ok \/ val.next > Len(text)
                  THEN [ok |-> FALSE, members |-> <<>>]
                  ELSE IF text[val.next] = "}" /\ val.next = Len(text)
                  THEN [ok |-> TRUE, members |-> read]
                  ELSE IF text[val.next] = ","
                  THEN ReadMembers(text, val.next + 1, read)
                  ELSE [ok |-> FALSE, members |-> <<>>]

\* JSON.parse(objectText) for an object whose members are strings.
ParseObject(objectText) ==
  IF Len(objectText) >= 2 /\ objectText[1] = "{"
  THEN ReadMembers(objectText, 2, <<>>)
  ELSE [ok |-> FALSE, members |-> <<>>]

\* obj[key]: the values of the member, the last one counts; <<>> is undefined.
Member(obj, key) ==
  LET at == {i \in 1..Len(obj.members) : obj.members[i][1] = key}
  IN IF at = {} THEN <<>>
     ELSE <<obj.members[CHOOSE i \in at : \A j \in at : j <= i][2]>>

\* The locals of the loop of salvageToolInput.
Scan(objectStart, depth, inString, escape, results) ==
  [objectStart |-> objectStart, depth |-> depth, inString |-> inString,
   escape |-> escape, results |-> results]

\* One iteration of a loop that takes braces inside strings for structure.
ScanCharUnquoted(json, s, i) ==
  IF json[i] = "{"
  THEN [s EXCEPT !.objectStart = IF s.depth = 0 THEN i ELSE s.objectStart,
                 !.depth = s.depth + 1]
  ELSE IF json[i] = "}"
  THEN IF s.depth - 1 = 0 /\ s.objectStart # 0
       THEN LET obj == ParseObject(SubSeq(json, s.objectStart, i))
                path == Member(obj, <<"p", "a", "t", "h">>)
                content == Member(obj, <<"c", "o", "n", "t", "e", "n", "t">>)
            IN [s EXCEPT !.depth = s.depth - 1,
                         !.objectStart = 0,
                         !.results = IF obj.ok /\ path # <<>> /\ content # <<>>
                                     THEN Append(s.results, CodeFile(path[1], content[1]))
                                     ELSE s.results]
       ELSE [s EXCEPT !.depth = s.depth - 1]
  ELSE s

\* One iteration of the loop of salvageToolInput, at position i.
ScanChar(json, s, i) ==
  IF s.escape THEN [s EXCEPT !.escape = FALSE]
  ELSE IF json[i] = Backslash /\ s.inString THEN [s EXCEPT !.escape = TRUE]
  ELSE IF json[i] = Quote THEN [s EXCEPT !.inString = ~s.inString]
  ELSE IF s.inString THEN s
  ELSE IF json[i] = "{"
  THEN [s EXCEPT !.objectStart = IF s.depth = 0 THEN i ELSE s.objectStart,
                 !.depth = s.depth + 1]
  ELSE IF json[i] = "}"
  THEN IF s.depth - 1 = 0 /\ s.objectStart # 0
       THEN LET obj == ParseObject(SubSeq(json, s.objectStart, i))
                path == Member(obj, <<"p", "a", "t", "h">>)
                content == Member(obj, <<"c", "o", "n", "t", "e", "n", "t">>)
            IN [s EXCEPT !.depth = s.depth - 1,
                         !.objectStart = 0,
                         !.results = IF obj.ok /\ path # <<>> /\ content # <<>>
                                     THEN Append(s.results, CodeFile(path[1], content[1]))
                                     ELSE s.results]
       ELSE [s EXCEPT !.depth = s.depth - 1]
  ELSE s

\* The loop of salvageToolInput over the positions from..to, run in halves;
\* the test on the locals after the first half makes their evaluation
\* precede the second half.
RECURSIVE ScanObjects(_, _, _, _)
ScanObjects(json, s, from, to) ==
  IF from > to THEN s
  ELSE IF from = to THEN ScanChar(json, s, from)
  ELSE LET mid == (from + to) \div 2
           half == ScanObjects(json, s, from, mid)
       IN CASE half.escape \in BOOLEAN -> ScanObjects(json, half, mid + 1, to)

\* What salvageToolInput returns: null, or { files: results }.
Salvaged(isNull, files) == [isNull |-> isNull, files |-> files]

salvageToolInput(json) ==
  LET filesIdx == IndexOf(json, <<Quote, "f", "i", "l", "e", "s", Quote>>, 1)
      arrayStart == IF filesIdx = 0 THEN 0 ELSE IndexOf(json, <<"[">>, filesIdx)
      results == ScanObjects(json, Scan(0, 0, FALSE, FALSE, <<>>),
                             arrayStart + 1, Len(json)).results
  IN IF filesIdx = 0 \/ arrayStart = 0 \/ results = <<>>
     THEN Salvaged(TRUE, <<>>)
     ELSE Salvaged(FALSE, results)

\* The model streams one more file object in full.
StreamFile(file) ==
  /\ salvaged = <<>>
  /\ Len(written) < MaxSalvaged
  /\ written' = Append(written, file)
  /\ jsonBuffer' = jsonBuffer \o (IF written = <<>> THEN <<>> ELSE <<",">>)
                     \o FileObject(file)
  /\ UNCHANGED salvaged
  /\ UNCHANGED <<env, pipelineVars, verdictVars, runnerVars, clientVars, sseVars>>

\* The stream stops at max_tokens after the first k characters of the next
\* file object; JSON.parse fails on the tool input and callToolCompletion
\* calls salvageToolInput.
StreamTruncated(file, k) ==
  /\ salvaged = <<>>
  /\ k \in 1..(Len(FileObject(file)) - 1)
  /\ jsonBuffer' = jsonBuffer \o (IF written = <<>> THEN <<>> ELSE <<",">>)
                     \o SubSeq(FileObject(file), 1, k)
  /\ salvaged' = <<salvageToolInput(jsonBuffer')>>
  /\ UNCHANGED written
  /\ UNCHANGED <<env, pipelineVars, verdictVars, runnerVars, clientVars, sseVars>>

\* The length of the longest file object the model streams.
LongestObject ==
  Len(FileObject(CHOOSE f \in StreamedFiles :
        \A g \in StreamedFiles : Len(FileObject(g)) <= Len(FileObject(f))))

SalvageNext ==
  \/ \E file \in StreamedFiles : StreamFile(file)
  \/ \E file \in StreamedFiles : \E k \in 1..LongestObject : StreamTruncated(file, k)

SalvageSpec == Init /\ [][SalvageNext]_vars

(***************************************************************************)
(* The transport client: fetchWithRetry, streamChatCompletion and          *)
(* callCompletion.  The stream is taken event by event; the waiting        *)
(* between two requests changes no state.                                  *)
(***************************************************************************)
MaxText == 2        \* most characters of text a stream delivers

maxRetries == 3

HttpStatuses == {200, 400, 401, 429, 500, 529}
TextDeltas == {"a", "b"}
StopReasons == {"end_turn", "max_tokens"}

CompletionFailure(error) == [ok |-> FALSE, error |-> error]
CompletionSuccess(text, stopReason) ==
  [ok |-> TRUE, text |-> text, stopReason |-> stopReason]

\* Variant: a 529 is returned at once.
fetchOnly429(status) ==
  /\ cResponse = <<>> /\ cResult = <<>>
  /\ Len(cStatuses) <= maxRetries
  /\ cStatuses' = Append(cStatuses, status)
  /\ cResponse' = IF status = 429 /\ Len(cStatuses) # maxRetries
                  THEN cResponse ELSE <<status>>
  /\ UNCHANGED <<cText, cStopReason, cEvent, cResult>>
  /\ UNCHANGED <<env, pipelineVars, verdictVars, runnerVars, salvageVars, sseVars>>

\* One iteration of the loop of fetchWithRetry: attempt is the number of
\* responses received before, status the status of the response to this
\* request.
fetchWithRetry(status) ==
  /\ cResponse = <<>> /\ cResult = <<>>
  /\ Len(cStatuses) <= maxRetries
  /\ cStatuses' = Append(cStatuses, status)
  /\ cResponse' = IF status \in {429, 529} /\ Len(cStatuses) # maxRetries
                  THEN cResponse ELSE <<status>>
  /\ UNCHANGED <<cText, cStopReason, cEvent, cResult>>
  /\ UNCHANGED <<env, pipelineVars, verdictVars, runnerVars, salvageVars, sseVars>>

\* callCompletion returns result after event.
Complete(event, result) ==
  /\ cResult = <<>>
  /\ cResult' = <<result>>
  /\ cEvent' = event
  /\ UNCHANGED <<cStatuses, cResponse, cText, cStopReason>>
  /\ UNCHANGED <<env, pipelineVars, verdictVars, runnerVars, salvageVars, sseVars>>

\* fetch or reader.read() throws: the catch block of callCompletion.
ConnectionFails ==
  /\ cResponse = <<>> \/ cResponse = <<200>>
  /\ Complete(cEvent, CompletionFailure("Failed to connect to AI service: " \o Thrown))

\* The message streamChatCompletion yields for a response that is not ok;
\* hasMessage says whether the body parses and carries error.message.
HttpErrorMessage(status, hasMessage) ==
  IF ~hasMessage THEN "AI service error (HTTP " \o ToString(status) \o ")"
  ELSE IF status = 401 THEN "Invalid API key. Please check your key in Settings."
  ELSE IF status \in {429, 529}
  THEN "The AI service is temporarily busy. Please try again in a few minutes."
  ELSE IF status = 400 THEN "Request error: " \o "m"
  ELSE "AI service error (HTTP " \o ToString(status) \o "): " \o "m"

\* !response.ok: the error event, which callCompletion returns.
ResponseNotOk(hasMessage) ==
  /\ cResponse # <<>> /\ cResponse[1] # 200
  /\ Complete(cEvent, CompletionFailure(HttpErrorMessage(cResponse[1], hasMessage)))

\* content_block_delta with a text_delta.
TextDelta(delta) ==
  /\ cResponse = <<200>> /\ cResult = <<>>
  /\ Len(cText) < MaxText
  /\ cText' = cText \o delta
  /\ cEvent' = "content_block_delta"
  /\ UNCHANGED <<cStatuses, cResponse, cStopReason, cResult>>
  /\ UNCHANGED <<env, pipelineVars, verdictVars, runnerVars, salvageVars, sseVars>>

\* message_delta with a stop_reason.
MessageDelta(stop_reason) ==
  /\ cResponse = <<200>> /\ cResult = <<>>
  /\ cStopReason' = stop_reason
  /\ cEvent' = "message_delta"
  /\ UNCHANGED <<cStatuses, cResponse, cText, cResult>>
  /\ UNCHANGED <<env, pipelineVars, verdictVars, runnerVars, salvageVars, sseVars>>

\* What callCompletion returns after the event `done'.
Done ==
  IF cText = "" THEN CompletionFailure("AI service returned empty response")
  ELSE CompletionSuccess(cText, cStopReason)

\* message_stop: streamChatCompletion yields `done'.
MessageStop ==
  /\ cResponse = <<200>>
  /\ Complete("message_stop", Done)

\* The stream ends without message_stop: `done' is yielded all the same.
StreamEnds ==
  /\ cResponse = <<200>>
  /\ Complete("done", Done)

\* An error event in the stream.
ErrorEvent ==
  /\ cResponse = <<200>>
  /\ Complete("error", CompletionFailure("Overloaded"))

ClientNext ==
  \/ \E status \in HttpStatuses : fetchWithRetry(status)
  \/ ConnectionFails
  \/ \E hasMessage \in BOOLEAN : ResponseNotOk(hasMessage)
  \/ \E delta \in TextDeltas : TextDelta(delta)
  \/ \E stop_reason \in StopReasons : MessageDelta(stop_reason)
  \/ MessageStop
  \/ StreamEnds
  \/ ErrorEvent

ClientSpec == Init /\ [][ClientNext]_vars


(***************************************************************************)
(* Recovery of stuck jobs.  A queued message may be lost and a delivered   *)
(* step may never complete: neither acts again.  The scheduled handler     *)
(* runs the sweep on every cron tick, whatever the other handlers do, and  *)
(* time advances; every other handler that has begun ends, by its next     *)
(* statement or by being lost.                                             *)
(***************************************************************************)
\* No model call fails and no output is truncated: jobs are stuck only by
\* lost messages and by steps that never complete.
RecoveryEnv ==
  Environment({"brief A"}, {Null}, {ReviewResult(PassReview, FALSE)}, {FALSE}, {})

\* A message sent to PIPELINE_QUEUE is never delivered.
MessageLost(type) ==
  /\ BagIn(type, queue)
  /\ queue' = queue (-) SetToBag({type})
  /\ UNCHANGED <<job, age, approvalsSent, artifacts, running, inflight,
                 stuckFeatures>>
  /\ UNCHANGED <<env, verdictVars, runnerVars, salvageVars, clientVars, sseVars>>

\* A delivered step never completes: its model call never returns, or the
\* worker is stopped; or it returns without a write because fetchFeature
\* found no row.
StepNeverCompletes ==
  \E step \in BagToSet(running) :
    /\ running' = running (-) SetToBag({step})
    /\ UNCHANGED <<job, age, approvalsSent, artifacts, queue, inflight,
                   stuckFeatures>>
    /\ UNCHANGED <<env, verdictVars, runnerVars, salvageVars, clientVars, sseVars>>

\* The statements of the handlers that have begun.
Handlers ==
  \/ \E b \in Briefs : ConfirmRejected(b)
  \/ \E g \in Gates : ApproveWrite(g)
  \/ \E b \in Briefs : ReviseWrite(b)
  \/ \E t \in RetryTargets : RetryWrite(t)
  \/ \E type \in MessageTypes : processPipelineStep(type)
  \/ stepRunSpec
  \/ stepRunPlan
  \/ stepRunTests
  \/ stepRunImplement
  \/ stepRunSecurityReview
  \/ stepRunCodeReview
  \/ stepRunVerdict
  \/ \E type \in MessageTypes : MessageLost(type)
  \/ StepNeverCompletes

RecoveryNext ==
  \/ \E b \in Briefs : Confirm(b)
  \/ \E g \in Gates : ApproveCheck(g)
  \/ \E b \in Briefs : ReviseCheck(b)
  \/ RetryCheck
  \/ Handlers
  \/ SweepSelect
  \/ \E updateError \in BOOLEAN : SweepUpdate(updateError)
  \/ Tick

RecoveryInit ==
  env = RecoveryEnv /\ PipelineInit /\ VerdictIdle /\ RunnerInit /\ SalvageInit
    /\ ClientInit
    /\ SseInit

RecoverySpec ==
  /\ RecoveryInit
  /\ [][RecoveryNext]_vars
  /\ WF_vars(Tick)
  /\ SF_vars(SweepSelect)
  /\ WF_vars(\E updateError \in BOOLEAN : SweepUpdate(updateError))
  /\ WF_vars(Handlers)

(***************************************************************************)
(* The SSE readers of streamChatCompletion and callToolCompletion.  The    *)
(* response body is a sequence of bytes the service writes frame by frame   *)
(* and reader.read() delivers in chunks of any length.  An ASCII byte is    *)
(* written as its character; the two bytes of one two-byte character are    *)
(* LeadByte and ContinuationByte.                                           *)
(***************************************************************************)
MaxFrames == 2      \* most frames the service writes to one response body

LeadByte == "C3"
ContinuationByte == "A9"
TwoByteChar == "e'"
ReplacementChar == "?"

\* The names of the events, character by character.
EventType ==
  [message_start |->
     <<"m", "e", "s", "s", "a", "g", "e", "_", "s", "t", "a", "r", "t">>,
   content_block_start |->
     <<"c", "o", "n", "t", "e", "n", "t", "_", "b", "l", "o", "c", "k", "_", "s", "t", "a", "r", "t">>,
   content_block_delta |->
     <<"c", "o", "n", "t", "e", "n", "t", "_", "b", "l", "o", "c", "k", "_", "d", "e", "l", "t", "a">>,
   message_delta |->
     <<"m", "e", "s", "s", "a", "g", "e", "_", "d", "e", "l", "t", "a">>,
   message_stop |->
     <<"m", "e", "s", "s", "a", "g", "e", "_", "s", "t", "o", "p">>,
   error |->
     <<"e", "r", "r", "o", "r">>,
   ping |->
     <<"p", "i", "n", "g">>]

EventPrefix == <<"e", "v", "e", "n", "t", ":", " ">>
DataPrefix == <<"d", "a", "t", "a", ":", " ">>
BlankLine == <<"\n", "\n">>

\* An event as the service frames it: its name, its data, a blank line.
Frame(eventType, data) ==
  EventPrefix \o eventType \o <<"\n">> \o DataPrefix \o data \o BlankLine

\* What the service may write: the events the readers handle, each with a
\* JSON text abbreviated to one character, an event with a two-byte
\* character in its text, data that is no JSON, an event without data, an
\* event whose blank line has not been written, and a newline of its own.
Frames ==
  {Frame(EventType.message_start, <<"u">>),
   Frame(EventType.content_block_start, <<"t">>),
   Frame(EventType.content_block_delta, <<LeadByte, ContinuationByte>>),
   Frame(EventType.content_block_delta, <<"j">>),
   Frame(EventType.content_block_delta, <<"{">>),
   Frame(EventType.message_delta, <<"m">>),
   Frame(EventType.message_stop, <<"s">>),
   Frame(EventType.error, <<"o">>),
   EventPrefix \o EventType.ping \o BlankLine,
   EventPrefix \o EventType.message_delta \o <<"\n">> \o DataPrefix \o <<"m">>,
   <<"\n">>}

\* JSON.parse(data), for the texts of Frames: the fields the readers look at,
\* and ok = FALSE where JSON.parse throws.
NoJson ==
  [ok |-> FALSE, input_tokens |-> 0, tool_use |-> "", text |-> <<>>,
   partial_json |-> <<>>, stop_reason |-> "", output_tokens |-> 0, message |-> ""]
JSONParse(data) ==
  IF data = <<"u">> THEN [NoJson EXCEPT !.ok = TRUE, !.input_tokens = 1]
  ELSE IF data = <<"t">> THEN [NoJson EXCEPT !.ok = TRUE, !.tool_use = "toolu_1"]
  ELSE IF data = <<TwoByteChar>>
  THEN [NoJson EXCEPT !.ok = TRUE, !.text = <<TwoByteChar>>]
  ELSE IF data = <<"j">> THEN [NoJson EXCEPT !.ok = TRUE, !.partial_json = <<"{">>]
  ELSE IF data = <<"m">>
  THEN [NoJson EXCEPT !.ok = TRUE, !.stop_reason = "max_tokens", !.output_tokens = 2]
  ELSE IF data = <<"s">> THEN [NoJson EXCEPT !.ok = TRUE]
  ELSE IF data = <<"o">> THEN [NoJson EXCEPT !.ok = TRUE, !.message = "Overloaded"]
  ELSE NoJson

\* The characters of bytes and the bytes held back at their end: a lead
\* byte at the end is held back, a lead byte with its continuation is one
\* character, a byte of the two out of place is U+FFFD.
RECURSIVE Characters(_)
Characters(bytes) ==
  LET n == Len(bytes)
      marked == {i \in 1..n : bytes[i] \in {LeadByte, ContinuationByte}}
      i == CHOOSE k \in marked : \A l \in marked : k <= l
      next(char, from) ==
        LET after == Characters(SubSeq(bytes, from, n))
        IN [text |-> SubSeq(bytes, 1, i - 1) \o char \o after.text,
            pending |-> after.pending]
  IN IF marked = {} THEN [text |-> bytes, pending |-> <<>>]
     ELSE IF bytes[i] = ContinuationByte THEN next(<<ReplacementChar>>, i + 1)
     ELSE IF i = n THEN [text |-> SubSeq(bytes, 1, i - 1), pending |-> <<LeadByte>>]
     ELSE IF bytes[i + 1] = ContinuationByte THEN next(<<TwoByteChar>>, i + 2)
     ELSE next(<<ReplacementChar>>, i + 1)

\* decoder.decode(value, {stream: true}) after the bytes held back before.
Decode(pending, value) == Characters(pending \o value)

\* String.prototype.split with a separator that is not empty.
RECURSIVE Split(_, _)
Split(s, separator) ==
  LET i == IndexOf(s, separator, 1)
  IN IF i = 0 THEN <<s>>
     ELSE <<SubSeq(s, 1, i - 1)>>
            \o Split(SubSeq(s, i + Len(separator), Len(s)), separator)

\* The loop over the lines of a part: what follows prefix in the last line
\* that starts with it, '' when there is none.
Field(lines, prefix) ==
  LET hits == {i \in 1..Len(lines) :
                 /\ Len(lines[i]) >= Len(prefix)
                 /\ SubSeq(lines[i], 1, Len(prefix)) = prefix}
      last == CHOOSE i \in hits : \A j \in hits : j <= i
  IN IF hits = {} THEN <<>>
     ELSE SubSeq(lines[last], Len(prefix) + 1, Len(lines[last]))

\* The branches of streamChatCompletion on an event whose data parsed;
\* text is what callCompletion adds up from the text events it is yielded.
StreamEvent(r, eventType, parsed) ==
  IF eventType = EventType.message_start
  THEN [r EXCEPT !.inputTokens =
          IF parsed.input_tokens # 0 THEN parsed.input_tokens ELSE @]
  ELSE IF eventType = EventType.content_block_delta
  THEN [r EXCEPT !.text = @ \o parsed.text]
  ELSE IF eventType = EventType.message_delta
  THEN [r EXCEPT !.stopReason =
          IF parsed.stop_reason # "" THEN parsed.stop_reason ELSE @,
                 !.outputTokens =
          IF parsed.output_tokens # 0 THEN parsed.output_tokens ELSE @]
  ELSE IF eventType = EventType.message_stop
  THEN [r EXCEPT !.yielded = "done"]
  ELSE IF eventType = EventType.error
  THEN [r EXCEPT !.yielded = "error",
                 !.message = IF parsed.message # "" THEN parsed.message
                             ELSE "AI service error"]
  ELSE r

\* The branches of callToolCompletion on an event whose data parsed.
ToolEvent(r, eventType, parsed) ==
  IF eventType = EventType.message_start
  THEN [r EXCEPT !.inputTokens =
          IF parsed.input_tokens # 0 THEN parsed.input_tokens ELSE @]
  ELSE IF eventType = EventType.content_block_start
  THEN [r EXCEPT !.toolUseId =
          IF parsed.tool_use # "" THEN parsed.tool_use ELSE @]
  ELSE IF eventType = EventType.content_block_delta
  THEN [r EXCEPT !.jsonBuffer = @ \o parsed.partial_json]
  ELSE IF eventType = EventType.message_delta
  THEN [r EXCEPT !.stopReason =
          IF parsed.stop_reason # "" THEN parsed.stop_reason ELSE @,
                 !.outputTokens =
          IF parsed.output_tokens # 0 THEN parsed.output_tokens ELSE @]
  ELSE IF eventType = EventType.error
  THEN [r EXCEPT !.yielded = "error",
                 !.message = IF parsed.message # "" THEN parsed.message
                             ELSE "AI service error"]
  ELSE r

Calls == {"streamChatCompletion", "callToolCompletion"}

\* The body of the loop over the parts: the event's name and data are read
\* from its lines, a part without data and data that is no JSON are skipped.
Part(call, r, part) ==
  LET lines == Split(part, <<"\n">>)
      eventType == Field(lines, EventPrefix)
      data == Field(lines, DataPrefix)
      parsed == JSONParse(data)
      seen == [r EXCEPT !.handled = Append(@, eventType)]
  IN IF data = <<>> \/ ~parsed.ok THEN r
     ELSE IF call = "streamChatCompletion"
     THEN StreamEvent(seen, eventType, parsed)
     ELSE ToolEvent(seen, eventType, parsed)

\* for (const part of parts), left by the return after message_stop or error.
RECURSIVE ForParts(_, _, _)
ForParts(call, r, parts) ==
  IF parts = <<>> \/ r.yielded # "" THEN r
  ELSE ForParts(call, Part(call, r, Head(parts)), Tail(parts))

\* Variant: the last part is dropped instead of kept in buffer.
ChunkUnbuffered(call, r, value) ==
  LET decoded == Decode(r.pending, value)
      parts == Split(r.buffer \o decoded.text, BlankLine)
      kept == [r EXCEPT !.pending = decoded.pending, !.buffer = <<>>]
  IN ForParts(call, kept, SubSeq(parts, 1, Len(parts) - 1))

\* One pass of the read loop with the chunk value: the decoded text is added
\* to buffer, buffer is split at the blank lines, its last part is kept as
\* the new buffer and the parts before it are handled.
Chunk(call, r, value) ==
  LET decoded == Decode(r.pending, value)
      parts == Split(r.buffer \o decoded.text, BlankLine)
      kept == [r EXCEPT !.pending = decoded.pending, !.buffer = parts[Len(parts)]]
  IN ForParts(call, kept, SubSeq(parts, 1, Len(parts) - 1))

\* reader.read() reports done: streamChatCompletion yields done, and
\* callToolCompletion leaves its loop; what is left in buffer is not handled.
AfterLoop(r) == IF r.yielded = "" THEN [r EXCEPT !.yielded = "done"] ELSE r

\* The bytes of the response body written so far.
RECURSIVE Body(_)
Body(frames) == IF frames = <<>> THEN <<>> ELSE Head(frames) \o Body(Tail(frames))

MaxChunk == 74      \* most bytes reader.read() returns as one chunk

\* fetchWithRetry has returned a response that is ok to function call.
Open(call) ==
  /\ sseCall = ""
  /\ sseCall' = call
  /\ UNCHANGED <<sseWritten, sseOffset, sseReader>>
  /\ UNCHANGED <<env, pipelineVars, verdictVars, runnerVars, salvageVars, clientVars>>

\* The service writes a frame to the response body.
Write(frame) ==
  /\ sseCall # "" /\ sseReader.yielded = ""
  /\ Len(sseWritten) < MaxFrames
  /\ sseWritten' = Append(sseWritten, frame)
  /\ UNCHANGED <<sseCall, sseOffset, sseReader>>
  /\ UNCHANGED <<env, pipelineVars, verdictVars, runnerVars, salvageVars, clientVars>>

\* reader.read() returns the next k bytes of the body as one chunk.
Read(k) ==
  /\ sseCall # "" /\ sseReader.yielded = ""
  /\ sseOffset + k <= Len(Body(sseWritten))
  /\ sseReader' = Chunk(sseCall, sseReader,
                        SubSeq(Body(sseWritten), sseOffset + 1, sseOffset + k))
  /\ sseOffset' = sseOffset + k
  /\ UNCHANGED <<sseCall, sseWritten>>
  /\ UNCHANGED <<env, pipelineVars, verdictVars, runnerVars, salvageVars, clientVars>>

\* The service ends the body and reader.read() returns done after the last
\* of its bytes.
ReadDone ==
  /\ sseCall # "" /\ sseReader.yielded = ""
  /\ sseOffset = Len(Body(sseWritten))
  /\ sseReader' = AfterLoop(sseReader)
  /\ UNCHANGED <<sseCall, sseWritten, sseOffset>>
  /\ UNCHANGED <<env, pipelineVars, verdictVars, runnerVars, salvageVars, clientVars>>

SseNext ==
  \/ \E call \in Calls : Open(call)
  \/ \E frame \in Frames : Write(frame)
  \/ \E k \in 1..MaxChunk : Read(k)
  \/ ReadDone

SseSpec == Init /\ [][SseNext]_vars

(***************************************************************************)
(* Claims about the advisory alignment review and about truncated output   *)
(* (AdvisorySpec).                                                         *)
(***************************************************************************)

\* C25: a spec, plan or tests step returns in one of two ways.  Its own
\* generation failed (no API key, failed model call, exception, failed
\* save): the job is failed with that message.  Or its deliverable is
\* saved and the job is at the gate of the step, whether the alignment
\* review returned a text, returned a failure or threw: the review only
\* decides whether the recommendation saved is its text or NULL.
C25_Advisory ==
  [][\A type \in {"run_spec", "run_plan", "run_tests"} :
       LET s == Step(type, "-", "-")
           column == CASE type = "run_spec" -> "spec_markdown"
                       [] type = "run_plan" -> "plan_markdown"
                       [] type = "run_tests" -> "tests_markdown"
           recColumn == CASE type = "run_spec" -> "spec_recommendation"
                          [] type = "run_plan" -> "plan_recommendation"
                          [] type = "run_tests" -> "tests_recommendation"
           gate == CASE type = "run_spec" -> "spec_ready"
                     [] type = "run_plan" -> "plan_ready"
                     [] type = "run_tests" -> "tests_ready"
           deliverable == CASE type = "run_spec" -> "# Specification"
                            [] type = "run_plan" -> "# Plan"
                            [] type = "run_tests" -> "# Tests"
           ownFailures ==
             {"Failed to read API key. Please check your key in Settings.",
              "AI service returned empty response",
              "Spec agent error: fetch failed", "Plan agent error: fetch failed",
              "Test agent error: fetch failed",
              "Failed to save specification: connection reset",
              "Failed to save plan: connection reset",
              "Failed to save tests: connection reset"}
       IN (BagIn(s, running) /\ running' = running (-) SetToBag({s}))
            => \/ /\ job'.status = "failed"
                  /\ job'.error_message \in ownFailures
                  /\ job'[column] = job[column]
                  /\ job'[recColumn] = job[recColumn]
               \/ /\ job'.status = gate
                  /\ job'[column] = deliverable
                  /\ job'[recColumn] \in {"Aligned with the brief.", Null}
    ]_vars

\* The alignment review of the specification returned a recommendation,
\* that of the plan failed or threw, and the job is at the plan gate with
\* the plan saved and without a recommendation for it.
C25_Witness ==
  /\ job.status = "plan_ready"
  /\ job.plan_markdown = "# Plan"
  /\ job.spec_recommendation = "Aligned with the brief."
  /\ job.plan_recommendation = Null
  /\ running = EmptyBag

\* C29: an implement step that returns with the job in review has stored
\* at least one file and queued the security review.  With a failure of
\* the runner the step writes the status failed with the runner's message,
\* stores nothing and queues nothing.  With files from the runner the step
\* stores them, puts the job in review and queues the security review; the
\* same write sets the warning that counts the recovered files when the
\* output was truncated, and leaves the error message otherwise.
C29_Implement ==
  [][LET s == Step("run_implement", "-", "-")
     IN /\ (BagIn(s, running) /\ running' = running (-) SetToBag({s})
              /\ job'.status = "review")
             => /\ artifacts' # {}
                /\ queue' = queue (+) SetToBag({"run_security_review"})
        /\ \A codeResult \in CodeResults :
             Return(s, Implemented(codeResult))
               => IF codeResult.ok
                  THEN /\ codeResult.files # {}
                       /\ codeResult.files \subseteq artifacts'
                       /\ job'.status = "review"
                       /\ queue' = queue (+) SetToBag({"run_security_review"})
                       /\ job'.error_message =
                            IF codeResult.wasTruncated
                            THEN "Output was truncated: 1 complete file(s) were recovered, but some files may be missing."
                            ELSE job.error_message
                  ELSE /\ job'.status = "failed"
                       /\ job'.error_message = codeResult.error
                       /\ artifacts' = artifacts
                       /\ queue' = queue
    ]_vars

\* The runner returned one file of a truncated output: the job is in review
\* with the file stored, the warning as its error message and the security
\* review queued.
C29_Witness ==
  /\ job.status = "review"
  /\ artifacts = {"src/a.ts"}
  /\ job.error_message =
       "Output was truncated: 1 complete file(s) were recovered, but some files may be missing."
  /\ queue = SetToBag({"run_security_review"})
  /\ running = EmptyBag

(***************************************************************************)
(* Claims about the transport client (ClientSpec).                         *)
(***************************************************************************)

\* C22 as stated: callCompletion returns a success only when a stop reason
\* arrived, by a message_delta with a stop_reason or by message_stop; text
\* of a stream that ended before is not returned as a success.
C22_AsStated ==
  (cResult # <<>> /\ cResult[1].ok)
    => cStopReason # "unknown" \/ cEvent = "message_stop"

\* C23: fetchWithRetry requests again only after a 429 or a 529 and at most
\* maxRetries = 3 times; it returns the response of its last request: at
\* once when its status is another one, and after the fourth request
\* whatever its status.
C23_Retry ==
  /\ Len(cStatuses) <= 4
  /\ \A i \in 1..(Len(cStatuses) - 1) : cStatuses[i] \in {429, 529}
  /\ cResponse = <<>>
       => /\ \A i \in 1..Len(cStatuses) : cStatuses[i] \in {429, 529}
          /\ Len(cStatuses) <= 3
  /\ cResponse # <<>>
       => /\ cStatuses # <<>>
          /\ cResponse[1] = cStatuses[Len(cStatuses)]
          /\ cResponse[1] \in {429, 529} => Len(cStatuses) = 4

\* Three retries after 429 and 529 are used up and the fourth response, a
\* 529, is returned to the caller, who reports the service as busy.
C23_Witness ==
  /\ cStatuses = <<429, 529, 429, 529>>
  /\ cResponse = <<529>>
  /\ cResult = <<CompletionFailure("The AI service is temporarily busy. Please try again in a few minutes.")>>

(***************************************************************************)
(* Claims about the failures of a step (FaultsSpec).                       *)
(***************************************************************************)

C21_Caught ==
  [][\A s \in BagToSet(running) :
       running' = running (-) SetToBag({s})
         => /\ CopiesIn(s.type, queue') = CopiesIn(s.type, queue)
            /\ \/ queue' = queue
               \/ /\ queue' = queue (+) SetToBag({
                       CASE s.type = "run_implement" -> "run_security_review"
                         [] s.type = "run_security_review" -> "run_code_review"
                         [] s.type = "run_code_review" -> "run_verdict"
                         [] OTHER -> "none"})
                  /\ s.type \in {"run_implement", "run_security_review",
                                 "run_code_review"}
            /\ (job'.error_message # job.error_message /\ job'.error_message
                 \in {"Spec agent error: fetch failed", "Plan agent error: fetch failed",
                      "Test agent error: fetch failed", "Pipeline error: fetch failed",
                      "Security review error: fetch failed",
                      "Code review error: fetch failed", "Verdict error: fetch failed"})
                 => /\ job'.status = "failed"
                    /\ job'.error_message =
                         (CASE s.type = "run_spec" -> "Spec agent error: "
                            [] s.type = "run_plan" -> "Plan agent error: "
                            [] s.type = "run_tests" -> "Test agent error: "
                            [] s.type = "run_implement" -> "Pipeline error: "
                            [] s.type = "run_security_review" -> "Security review error: "
                            [] s.type = "run_code_review" -> "Code review error: "
                            [] s.type = "run_verdict" -> "Verdict error: ")
                         \o "fetch failed"
                    /\ queue' = queue
    ]_vars

\* The implement step threw after it had stored its files: the job is
\* failed with the message of the catch block and no message is queued.
C21_Witness ==
  /\ job.status = "failed"
  /\ job.error_message = "Pipeline error: fetch failed"
  /\ artifacts # {}
  /\ queue = EmptyBag
  /\ running = EmptyBag

\* C30 as stated: a step whose write to the job store fails (the save of a
\* deliverable, the save of a review text, the transition to review, the
\* transition to done or failed) returns with the status failed, and sends
\* no message.
C30_AsStated ==
  [][\A s \in BagToSet(running) :
       LET saveFailed ==
             CASE s.type = "run_spec" ->
                    {Fails("Failed to save specification: " \o StoreError)}
               [] s.type = "run_plan" -> {Fails("Failed to save plan: " \o StoreError)}
               [] s.type = "run_tests" -> {Fails("Failed to save tests: " \o StoreError)}
               [] s.type = "run_implement" ->
                    {Outcome("status",
                             Failed("Failed to transition to review: " \o StoreError),
                             files, "none") : files \in FileSets}
               [] s.type = "run_security_review" ->
                    IF artifacts = {} THEN {} ELSE {Unreviewed("run_code_review")}
               [] s.type = "run_code_review" ->
                    IF artifacts = {} THEN {} ELSE {Unreviewed("run_verdict")}
               [] s.type = "run_verdict" -> {Outcome("none", job, {}, "none")}
       IN \A o \in saveFailed :
            Return(s, o) => job'.status = "failed" /\ queue' = queue
    ]_vars

(***************************************************************************)
(* The pipeline (Spec, BriefsSpec).                                        *)
(***************************************************************************)

\* C1 as stated: at most one pipeline step of the job is executing at any
\* time.
C1_AsStated == BagCardinality(running) <= 1

\* C2 as stated: a gate approval writes only when the stored status at the
\* moment of its write is the gate it is for.
C2_AsStated ==
  [][\A g \in Gates : ApproveWrite(g) => job.status = g]_vars

\* C3: a confirm succeeds only in drafting, where it never fails; it moves
\* the job to spec_generating and enqueues exactly one run_spec, so of the
\* confirms that race in drafting one succeeds; a confirm that finds
\* another status is rejected, writes no column (the brief of the winner
\* stays) and enqueues nothing.
C3_ConfirmOnce ==
  [][/\ (CopiesIn("run_spec", queue') > CopiesIn("run_spec", queue)
           /\ inflight' = inflight)
        => /\ job.status = "drafting"
           /\ job'.status = "spec_generating"
           /\ job'.brief_markdown \in env.briefs
           /\ queue' = queue (+) SetToBag({"run_spec"})
     /\ \A b \in env.briefs :
          LET rejected == Request("confirm", b)
          IN /\ CopiesIn(rejected, inflight') > CopiesIn(rejected, inflight)
                  => job.status # "drafting" /\ job' = job /\ queue' = queue
             /\ CopiesIn(rejected, inflight') < CopiesIn(rejected, inflight)
                  => job' = job /\ queue' = queue
    ]_vars

\* A confirm with another brief than the stored one is being rejected while
\* the winner's run_spec is under way.
C3_Witness ==
  /\ job.status = "spec_generating"
  /\ \E b \in env.briefs :
       /\ BagIn(Request("confirm", b), inflight)
       /\ job.brief_markdown \notin {b, Null}
  /\ BagCardinality(queue (+) running) = 1

\* C4 as stated: between two settlings of the job (at a gate or in a
\* terminal status) approvals send at most one next-step message.
C4_AsStated == approvalsSent <= 1

\* C5 as stated: no step and no sweep changes the status of a job that is at
\* a gate.
C5_AsStated ==
  [][job.status \in Gates
       /\ (\E s \in BagToSet(running) : running' = running (-) SetToBag({s})
           \/ stuckFeatures' # stuckFeatures)
       => job'.status = job.status]_vars

\* C6: stepRunVerdict takes a missing review for FAIL and the verdict of
\* parseVerdict otherwise; it writes done if and only if both verdicts are
\* PASS, and failed otherwise, with a message that names the reviews that
\* did not pass and no other.
C6_Verdict ==
  [][\A sv, cv \in {"PASS", "FAIL"} :
       LET s == Step("run_verdict", sv, cv)
       IN /\ running' = running (+) SetToBag({s})
               => /\ sv = "PASS" <=> /\ job.security_review_markdown # NullText
                                     /\ parseVerdict(job.security_review_markdown) = "PASS"
                  /\ cv = "PASS" <=> /\ job.code_review_markdown # NullText
                                     /\ parseVerdict(job.code_review_markdown) = "PASS"
          /\ (BagIn(s, running) /\ running' = running (-) SetToBag({s}))
               => /\ job'.status = "done" <=> (sv = "PASS" /\ cv = "PASS")
                  /\ job'.status # "done" =>
                       /\ job'.status = "failed"
                       /\ job'.error_message =
                            CASE sv = "FAIL" /\ cv = "FAIL" ->
                                   "Review failed: security review and code review did not pass. See review reports for details."
                              [] sv = "FAIL" /\ cv = "PASS" ->
                                   "Review failed: security review did not pass. See review reports for details."
                              [] sv = "PASS" /\ cv = "FAIL" ->
                                   "Review failed: code review did not pass. See review reports for details."
    ]_vars

\* The verdict step failed a job whose security review passed and whose
\* code review did not.
C6_Witness ==
  /\ job.status = "failed"
  /\ job.error_message =
       "Review failed: code review did not pass. See review reports for details."
  /\ job.security_review_markdown # NullText
  /\ parseVerdict(job.security_review_markdown) = "PASS"
  /\ job.code_review_markdown # NullText
  /\ parseVerdict(job.code_review_markdown) = "FAIL"

\* C7 as stated: the status becomes done only by a write of the verdict
\* step, and only when the status before that write is review.
C7_AsStated ==
  [][job'.status = "done" /\ job.status # "done"
       => /\ job.status = "review"
          /\ \E s \in BagToSet(running) :
               s.type = "run_verdict" /\ running' = running (-) SetToBag({s})
    ]_vars

\* C8 as stated: the stored text of a truncated review ends with
\* VERDICT: FAIL and parses to FAIL, and a job does not become done while
\* one of its stored reviews is a truncated one.
C8_AsStated ==
  [][/\ \A column \in {"security_review_markdown", "code_review_markdown"} :
          \A result \in env.reviews :
            (result.wasTruncated /\ job'[column] = ReviewText(result))
              => /\ job'[column][Len(job'[column])] = VerdictFail
                 /\ parseVerdict(job'[column]) = "FAIL"
     /\ (job'.status = "done" /\ job.status # "done")
          => \A column \in {"security_review_markdown", "code_review_markdown"} :
               \A result \in env.reviews :
                 result.wasTruncated => job[column] # ReviewText(result)
    ]_vars


\* C28: a run_security_review message is added to the queue only by an
\* implement step that returns with the job in review, a run_code_review
\* message only by a security-review step that returns, a run_verdict
\* message only by a code-review step that returns; every other message is
\* added by a request and never by a step, so the spec, plan, tests and
\* verdict steps send nothing.  A step begins only by taking its message
\* from the queue, and the status done is written only by a verdict step
\* that returns: the verdict step of a chain of messages resolves the job
\* after the code-review step of the chain returned, which began after the
\* security-review step of the chain returned.
C28_Chain ==
  [][LET returns(type) ==
           \E s \in BagToSet(running) :
             s.type = type /\ running' = running (-) SetToBag({s})
         returning ==
           \E s \in BagToSet(running) : running' = running (-) SetToBag({s})
     IN /\ \A type \in {"run_spec", "run_plan", "run_tests", "run_implement",
                        "run_security_review", "run_code_review", "run_verdict"} :
             CopiesIn(type, queue') > CopiesIn(type, queue)
               => /\ CopiesIn(type, queue') = CopiesIn(type, queue) + 1
                  /\ CASE type = "run_security_review" ->
                            returns("run_implement") /\ job'.status = "review"
                       [] type = "run_code_review" -> returns("run_security_review")
                       [] type = "run_verdict" -> returns("run_code_review")
                       [] OTHER -> ~returning
        /\ (returns("run_spec") \/ returns("run_plan") \/ returns("run_tests")
              \/ returns("run_verdict"))
             => queue' = queue
        /\ \A s \in BagToSet(running') :
             CopiesIn(s, running') > CopiesIn(s, running)
               => /\ BagIn(s.type, queue)
                  /\ queue' = queue (-) SetToBag({s.type})
        /\ (job'.status = "done" /\ job.status # "done")
             => returns("run_verdict")
    ]_vars

\* The chain of an implement step ran to its end: both reviews are stored
\* and pass, the verdict step has returned and the job is done.
C28_Witness ==
  /\ job.status = "done"
  /\ job.security_review_markdown = PassReview
  /\ job.code_review_markdown = PassReview
  /\ queue = EmptyBag
  /\ running = EmptyBag

(***************************************************************************)
(* Claims about revise and retry (ReworkSpec).                             *)
(***************************************************************************)

C19_AsStated ==
  [][\A t \in RetryTargets :
       LET r == Request("retry", t)
           cleared == CASE t = "tests_ready" -> {}
                        [] t = "plan_ready" -> {"tests_markdown", "tests_recommendation"}
                        [] t = "spec_ready" ->
                             {"tests_markdown", "tests_recommendation",
                              "plan_markdown", "plan_recommendation"}
                        [] t = "drafting" ->
                             {"tests_markdown", "tests_recommendation",
                              "plan_markdown", "plan_recommendation",
                              "spec_markdown", "spec_recommendation"}
           deliverables == {"brief_markdown", "spec_markdown", "spec_recommendation",
                            "plan_markdown", "plan_recommendation",
                            "tests_markdown", "tests_recommendation"}
       IN /\ CopiesIn(r, inflight') > CopiesIn(r, inflight)
               => /\ job.status = "failed"
                  /\ t = IF job.tests_markdown # Null THEN "tests_ready"
                         ELSE IF job.plan_markdown # Null THEN "plan_ready"
                         ELSE IF job.spec_markdown # Null THEN "spec_ready"
                         ELSE "drafting"
                  /\ job' = job /\ artifacts' = artifacts /\ queue' = queue
          /\ (RetryCheck /\ job.status # "failed") => UNCHANGED pipelineVars
          /\ CopiesIn(r, inflight') < CopiesIn(r, inflight)
               => /\ job'.status = t
                  /\ job'.error_message = Null
                  /\ job'.security_review_markdown = NullText
                  /\ job'.code_review_markdown = NullText
                  /\ \A column \in cleared : job'[column] = Null
                  /\ \A column \in deliverables \ cleared : job'[column] = job[column]
                  /\ artifacts' = {}
                  /\ queue' = queue
    ]_vars

(***************************************************************************)
(* The validated code runner (RunnerSpec).                                 *)
(***************************************************************************)

\* C14: one run of the code runner makes at most 3 calls of the model,
\* retries after a validation failure and after a truncation failure
\* counted together; after the third call it has returned, and when the
\* output of the third call fails the validation it returns the failure
\* that carries the validation issues of that output.
C14_ThreeCalls ==
  /\ calls <= 3
  /\ calls = attempt + Len(returned)
  /\ calls = 3 => Len(returned) = 1
  /\ (/\ calls = 3
      /\ toolResult[1].ok
      /\ toolResult[1].stopReason # "max_tokens"
      /\ ~CodeFilesSchema(toolResult[1].files))
       => returned =
            <<[ok |-> FALSE,
               error |-> "Code generation produced invalid output after 3 attempts: "
                            \o JoinIssues(ArrayIssues(toolResult[1].files))]>>

\* The third output in a row failed the validation, with two files of the
\* same path, and the runner returned the failure that says so.
C14_Witness ==
  /\ calls = 3
  /\ Len(messages) = 5
  /\ returned =
       <<[ok |-> FALSE,
          error |-> "Code generation produced invalid output after 3 attempts: : No duplicate paths"]>>

\* C15 as stated: every success result of the runner, truncated or not, has
\* at least one file, pairwise distinct paths, every path with an
\* alphanumeric first character and without a parent-directory segment, and
\* every content non-empty.
C15_AsStated ==
  (returned # <<>> /\ returned[1].ok) =>
    LET files == returned[1].files
    IN /\ Len(files) >= 1
       /\ \A i, j \in 1..Len(files) : files[i].path = files[j].path => i = j
       /\ \A i \in 1..Len(files) :
            LET p == files[i].path
            IN /\ Len(p) >= 1
               /\ p[1] \in Alphanumeric
               /\ ~\E k \in 1..(Len(p) - 1) :
                     /\ p[k] = "." /\ p[k + 1] = "."
                     /\ (k = 1 \/ p[k - 1] = "/")
                     /\ (k + 1 = Len(p) \/ p[k + 2] = "/")
               /\ files[i].content # ""

\* C16 as stated: the validation of the full array rejects every array with
\* two entries of the same path, and accepts every non-empty array with
\* pairwise distinct paths that start with an alphanumeric character and
\* have no parent-directory segment, and with non-empty contents.
C16_AsStated ==
  (toolResult # <<>> /\ toolResult[1].ok /\ toolResult[1].stopReason # "max_tokens") =>
    LET files == toolResult[1].files
        accepted == returned # <<>> /\ returned[1].ok
        distinct == \A i, j \in 1..Len(files) :
                       files[i].path = files[j].path => i = j
    IN /\ ~distinct => ~accepted
       /\ (/\ Len(files) >= 1
           /\ distinct
           /\ \A i \in 1..Len(files) :
                LET p == files[i].path
                IN /\ Len(p) >= 1
                   /\ p[1] \in Alphanumeric
                   /\ ~\E k \in 1..(Len(p) - 1) :
                         /\ p[k] = "." /\ p[k + 1] = "."
                         /\ (k = 1 \/ p[k - 1] = "/")
                         /\ (k + 1 = Len(p) \/ p[k + 2] = "/")
                   /\ files[i].content # "")
            => accepted

\* C16: the validation of the full array rejects every array with two
\* entries of the same path, and accepts every non-empty array with
\* pairwise distinct paths of 1 to 500 characters that start with an
\* alphanumeric character and contain no two consecutive dots anywhere,
\* and with non-empty contents.
C16_Validation ==
  (toolResult # <<>> /\ toolResult[1].ok /\ toolResult[1].stopReason # "max_tokens") =>
    LET files == toolResult[1].files
        accepted == returned # <<>> /\ returned[1].ok
        distinct == \A i, j \in 1..Len(files) :
                       files[i].path = files[j].path => i = j
    IN /\ ~distinct => ~accepted
       /\ (/\ Len(files) >= 1
           /\ distinct
           /\ \A i \in 1..Len(files) :
                LET p == files[i].path
                IN /\ Len(p) >= 1
                   /\ Len(p) <= 500
                   /\ p[1] \in Alphanumeric
                   /\ \A k \in 1..(Len(p) - 1) : ~(p[k] = "." /\ p[k + 1] = ".")
                   /\ files[i].content # "")
            => accepted

\* An array of two valid files with different paths was accepted as it is.
C16_Witness ==
  /\ toolResult # <<>> /\ toolResult[1].ok
  /\ toolResult[1].stopReason = "tool_use"
  /\ Len(toolResult[1].files) = 2
  /\ toolResult[1].files[1].path # toolResult[1].files[2].path
  /\ returned = <<[ok |-> TRUE, files |-> toolResult[1].files,
                   wasTruncated |-> FALSE, attempts |-> calls]>>


\* C24 as stated: the run has written as many audit entries as it has made
\* model calls.
C24_AsStated == Len(agent_runs) = calls

C27_Truncated ==
  [][/\ (/\ calls' = calls + 1
         /\ toolResult'[1].ok
         /\ toolResult'[1].stopReason = "max_tokens")
          => LET recovered == toolResult'[1].files
                 valid == SelectSeq(recovered, CodeFileSchema)
             IN /\ Len(returned') = 1
                /\ IF valid = <<>>
                   THEN returned'[1] =
                          [ok |-> FALSE,
                           error |-> "Code generation output was truncated and no complete files could be recovered. Please try again with a simpler feature."]
                   ELSE /\ returned'[1].ok
                        /\ returned'[1].wasTruncated
                        /\ returned'[1].files = valid
     /\ (returned # <<>> /\ toolResult[1].ok /\ toolResult[1].stopReason = "max_tokens")
          => calls' = calls]_vars

\* A truncated output with a valid and an invalid file was returned as a
\* success with the valid file alone.
C27_Witness ==
  /\ returned # <<>>
  /\ returned[1].ok
  /\ returned[1].wasTruncated
  /\ Len(returned[1].files) = 1
  /\ Len(toolResult[1].files) = 2

\* C38: the conversation of a run is the user prompt followed by pairs of
\* an assistant tool call and a user tool error, so the roles alternate and
\* the first and the last message are of the user.  Output that fails the
\* validation before the last attempt appends one pair, a truncation
\* failure before the last attempt leaves the user prompt alone, and nothing
\* else changes the conversation.
C38_Conversation ==
  [][/\ messages[1] = [role |-> "user", content |-> "getCodeUserPrompt"]
     /\ Len(messages) % 2 = 1
     /\ \A i \in 1..Len(messages) :
          messages[i].role = IF i % 2 = 1 THEN "user" ELSE "assistant"
     /\ \A i \in 2..Len(messages) :
          IF i % 2 = 0
          THEN messages[i].content = "tool_use"
          ELSE messages[i].content # "getCodeUserPrompt"
     /\ calls' = calls + 1 =>
          LET r == toolResult'[1]
              retried == returned' = <<>>
          IN IF retried /\ ~r.ok
             THEN messages' = <<[role |-> "user", content |-> "getCodeUserPrompt"]>>
             ELSE IF retried
             THEN /\ Len(messages') = Len(messages) + 2
                  /\ SubSeq(messages', 1, Len(messages)) = messages
                  /\ messages'[Len(messages) + 1].role = "assistant"
                  /\ messages'[Len(messages) + 2].role = "user"
             ELSE messages' = messages]_vars

\* An output failed the validation and the next call failed with a
\* truncation that could not be recovered: the conversation of three
\* messages is the user prompt alone again.
C38_Witness ==
  /\ calls = 2
  /\ attempt = 2
  /\ Len(messages) = 1
  /\ returned = <<>>
  /\ ~toolResult[1].ok

(***************************************************************************)
(* Claims about the salvage parser.                                        *)
(***************************************************************************)

\* C17: when the tool input holds N complete file objects followed by one
\* incomplete object, salvageToolInput returns exactly those N files in
\* order, also when contents hold braces, quotes or escapes; it returns
\* null when N = 0.
C17_Salvage ==
  salvaged # <<>> =>
    /\ written = <<>> => salvaged[1] = Salvaged(TRUE, <<>>)
    /\ written # <<>> => salvaged[1] = Salvaged(FALSE, written)

C17_Witness ==
  /\ salvaged # <<>>
  /\ Len(written) = 2
  /\ written[1].content = <<"}", Quote, ",", "{">>
  /\ written[2].content = <<"x", "\n", Backslash>>
  /\ salvaged[1].files = written
  /\ jsonBuffer[Len(jsonBuffer)] = Backslash

(***************************************************************************)
(* Claims about the SSE readers (SseSpec).                                 *)
(***************************************************************************)

\* What a reader hands to its caller, and the events it handled.
Result(r) ==
  [text |-> r.text, jsonBuffer |-> r.jsonBuffer, toolUseId |-> r.toolUseId,
   stopReason |-> r.stopReason, inputTokens |-> r.inputTokens,
   outputTokens |-> r.outputTokens, handled |-> r.handled,
   yielded |-> r.yielded, message |-> r.message]

\* C39: the result of a streaming completion (text or tool-input JSON, stop
\* reason, token counts) does not depend on how the body is cut into
\* chunks.  While the reader reads, it has handled the events a single chunk
\* with the bytes read so far would have made it handle, each once and none
\* before its blank line was read; and whatever the chunks were, it ends
\* with the result of reading the whole body as one chunk.
C39_Chunking ==
  sseCall # "" =>
    LET body == Body(sseWritten)
        once == AfterLoop(Chunk(sseCall, NewReader, body))
        rest == SubSeq(body, sseOffset + 1, Len(body))
        now == IF sseReader.yielded # "" THEN sseReader
               ELSE AfterLoop(Chunk(sseCall, sseReader, rest))
    IN /\ Result(now) = Result(once)
       /\ sseReader.yielded = ""
            => Result(sseReader)
                 = Result(Chunk(sseCall, NewReader, SubSeq(body, 1, sseOffset)))

\* A chunk ended between the two newlines that end an input_json_delta: the
\* tool's id has been taken from the event before, and the delta waits in
\* buffer for its second newline.
C39_Witness ==
  /\ sseCall = "callToolCompletion"
  /\ sseReader.handled = <<EventType.content_block_start>>
  /\ sseReader.toolUseId = "toolu_1"
  /\ sseReader.jsonBuffer = <<>>
  /\ sseReader.buffer
       = EventPrefix \o EventType.content_block_delta \o <<"\n">>
           \o DataPrefix \o <<"j", "\n">>

(***************************************************************************)
(* Claims about the reachable rows of a job, under every interleaving of   *)
(* requests, steps and the sweep.                                          *)
(***************************************************************************)

\* C31: in every reachable state a job whose status is failed has an error
\* message: every write of the status failed, by a step, by the verdict or
\* by the sweep, sets the message in the same UPDATE, and every write that
\* clears the message sets another status in the same UPDATE.
C31_FailedHasMessage == job.status = "failed" => job.error_message # Null

\* The sweep failed a job whose spec step is still running.
C31_Witness ==
  /\ job.status = "failed"
  /\ job.error_message = TimedOut("spec_generating")
  /\ \E s \in BagToSet(running) : s.type = "run_spec"

\* C32 as stated: a step that returns while the job is failed by the sweep
\* leaves the status failed.
C32_AsStated ==
  [][(/\ job.status = "failed"
      /\ job.error_message \in {TimedOut(status) : status \in STUCK_STATUSES}
      /\ \E s \in BagToSet(running) : running' = running (-) SetToBag({s}))
       => job'.status = "failed"]_vars

\* C33 as stated: no request, step or sweep changes the status of a job
\* that is done.
C33_AsStated == [][job.status = "done" => job'.status = "done"]_vars

\* C34 as stated: a job at a gate has the deliverable of that gate and of
\* every earlier gate.
C34_AsStated ==
  /\ job.status = "spec_ready" => job.spec_markdown # Null
  /\ job.status = "plan_ready" =>
       job.spec_markdown # Null /\ job.plan_markdown # Null
  /\ job.status = "tests_ready" =>
       /\ job.spec_markdown # Null
       /\ job.plan_markdown # Null
       /\ job.tests_markdown # Null

\* C35 as stated: no generated file is stored for a job in drafting, in a
\* generation status before the implementation, or at a gate.
C35_AsStated ==
  job.status \in {"drafting", "spec_generating", "spec_ready", "plan_generating",
                  "plan_ready", "tests_generating", "tests_ready"}
    => artifacts = {}

(***************************************************************************)
(* The stuck-job sweep (Spec).                                             *)
(***************************************************************************)

\* C11: when the status of the job at the conditional write of the sweep is
\* another than the status the sweep read, the write changes nothing: the
\* job keeps its status, its error message and every other column.
C11_SweepRejected ==
  [][(stuckFeatures # <<>> /\ stuckFeatures' = Tail(stuckFeatures)
        /\ job.status # Head(stuckFeatures))
       => job' = job /\ age' = age]_vars

\* The sweep read a processing status, and the job now has another status
\* with the error message of a step that failed meanwhile.
C11_Witness ==
  /\ stuckFeatures # <<>>
  /\ job.status = "failed"
  /\ job.error_message = "AI service returned empty response"

\* C12 as stated: whenever the sweep sets the job to failed, the last update
\* of the job is older than the threshold at the moment of that write.
C12_AsStated ==
  [][(stuckFeatures # <<>> /\ stuckFeatures' = Tail(stuckFeatures)
        /\ job' # job)
       => age > STUCK_THRESHOLD_MINUTES]_vars

\* C13: the sweep selects the job only in a processing status and more than
\* 10 minutes after its last update, and leaves it alone otherwise; without
\* a change of the status since the selection its write sets the status to
\* failed and the error message to the text that names the 10 minutes and
\* the status the job was stuck in, and changes no other column.
C13_Sweep ==
  [][/\ (stuckFeatures = <<>> /\ stuckFeatures' # <<>>)
          => /\ job.status \in {"spec_generating", "plan_generating",
                                "tests_generating", "implementing", "review"}
             /\ age > 10
             /\ stuckFeatures' = <<job.status>>
             /\ job' = job
     /\ (stuckFeatures # <<>> /\ stuckFeatures' = Tail(stuckFeatures)
           /\ job.status = Head(stuckFeatures))
          => job' = [job EXCEPT
                       !.status = "failed",
                       !.error_message =
                          "Pipeline timed out after 10 minutes in \""
                            \o job.status
                            \o "\" status. Use \"Retry from last checkpoint\" to try again."]
    ]_vars

\* The sweep failed a job that was stuck in implementing.
C13_Witness ==
  /\ job.status = "failed"
  /\ job.error_message =
       "Pipeline timed out after 10 minutes in \"implementing\" status. Use \"Retry from last checkpoint\" to try again."
  /\ stuckFeatures = <<>>


\* C37 as stated: the sweep logs a recovery only for an UPDATE that changed
\* the job from the status it had selected to failed.
C37_AsStated ==
  [][\A updateError \in BOOLEAN :
       (SweepUpdate(updateError)
          /\ RecoveryEvent(updateError) = "recovery.recovered")
         => /\ job.status = Head(stuckFeatures)
            /\ job'.status = "failed"]_vars

\* C36 as stated: with the sweep run on every cron tick and time advancing,
\* a job in spec_generating, plan_generating, tests_generating, implementing
\* or review is eventually at a gate, done or failed, also when the message
\* of its step is lost, when its step returns without a write and when its
\* step never completes.
C36_AsStated ==
  (job.status \in {"spec_generating", "plan_generating", "tests_generating",
                   "implementing", "review"})
    ~> (job.status \in {"spec_ready", "plan_ready", "tests_ready", "done", "failed"})

(***************************************************************************)
(* The verdict parser (VerdictSpec).                                       *)
(***************************************************************************)

\* C9 as stated: a stored text whose last five non-empty lines contain no
\* line that is exactly VERDICT: PASS parses to FAIL.
C9_AsStated ==
  vResult # "none" =>
    LET nonEmpty == {i \in 1..Len(vStored) : vStored[i] # EmptyLine}
        lastFive == {i \in nonEmpty :
                       Cardinality({j \in nonEmpty : j >= i}) <= 5}
    IN (\A i \in lastFive : vStored[i] # VerdictPass) => vResult = "FAIL"

\* C9: default deny.  A stored text whose last five non-empty lines contain
\* no line that is VERDICT: PASS once the whitespace around it is removed
\* parses to FAIL; this covers the empty text, VERDICT: PASS in another case
\* and VERDICT: PASS followed by other characters than whitespace.
C9_DefaultDeny ==
  vResult # "none" =>
    LET nonEmpty == {i \in 1..Len(vStored) : vStored[i] # EmptyLine}
        lastFive == {i \in nonEmpty :
                       Cardinality({j \in nonEmpty : j >= i}) <= 5}
    IN (\A i \in lastFive : vStored[i].core # "VERDICT: PASS")
         => vResult = "FAIL"

\* A text that ends with VERDICT: PASS followed by a dot, after a line with
\* VERDICT: pass, was stored as it is and parsed to FAIL.
C9_Witness ==
  /\ vResult = "FAIL"
  /\ vStored = vText
  /\ Len(vText) >= 2
  /\ vText[Len(vText)] = DottedPass
  /\ vText[Len(vText) - 1] = LowerPass
  /\ \A i \in 1..Len(vText) : vText[i].core \notin {"VERDICT: PASS", "VERDICT: FAIL"}

\* C10 as stated: the last of the last five non-empty lines that is exactly
\* VERDICT: PASS or VERDICT: FAIL determines the result; FAIL without one.
C10_AsStated ==
  vResult # "none" =>
    LET nonEmpty == {i \in 1..Len(vStored) : vStored[i] # EmptyLine}
        lastFive == {i \in nonEmpty :
                       Cardinality({j \in nonEmpty : j >= i}) <= 5}
        hits == {i \in lastFive : vStored[i] \in {VerdictPass, VerdictFail}}
    IN vResult = IF hits = {} THEN "FAIL"
                 ELSE IF vStored[CHOOSE i \in hits : \A j \in hits : j <= i]
                           = VerdictPass
                      THEN "PASS" ELSE "FAIL"

\* C10: the scan covers the last five lines, blank ones included, of the
\* text without the blank lines at its two ends; the last of them that is
\* VERDICT: PASS or VERDICT: FAIL once the whitespace around it is removed
\* determines the result; FAIL without one.
C10_WindowScan ==
  vResult # "none" =>
    LET nonBlank == {i \in 1..Len(vStored) : vStored[i].core # ""}
        last == CHOOSE i \in nonBlank : \A j \in nonBlank : j <= i
        first == CHOOSE i \in nonBlank : \A j \in nonBlank : j >= i
        window == {i \in 1..Len(vStored) :
                     i >= first /\ i <= last /\ i > last - 5}
        hits == {i \in window :
                   vStored[i].core \in {"VERDICT: PASS", "VERDICT: FAIL"}}
    IN vResult = IF nonBlank = {} \/ hits = {} THEN "FAIL"
                 ELSE IF vStored[CHOOSE i \in hits : \A j \in hits : j <= i].core
                           = "VERDICT: PASS"
                      THEN "PASS" ELSE "FAIL"

\* A text with VERDICT: PASS on its first line, four blank lines and a line
\* that is no verdict parsed to FAIL: the blank lines filled the window.
C10_Witness ==
  /\ vResult = "FAIL"
  /\ vStored = vText
  /\ Len(vText) = 6
  /\ vText[1] = VerdictPass
  /\ \A i \in 2..5 : vText[i] = EmptyLine
  /\ vText[6] = LowerPass

====
